---- MODULE Spec2Model ----
(***************************************************************************)
(* A model of mdBook's document tree (book/book.rs: the loader and the     *)
(* depth-first iterator), of its static asset pipeline                     *)
(* (renderer/html_handlebars/static_files.rs), of the link resolver and    *)
(* the quote converter of its markdown renderer (utils/mod.rs), of the     *)
(* HTML renderer (hbs_renderer.rs), of MDBook::init (book/mdbook.rs), of   *)
(* the watch loop (cmd/watch.rs) and of the navigation helpers             *)
(* (helpers/navigation.rs).                                                *)
(***************************************************************************)
EXTENDS Integers, Sequences, FiniteSets, TLC

VARIABLES
    summary,    \* the Summary handed to load_book_from_disk
    fs,         \* the file system: resolved path -> file
    result,     \* the Result<Book> of load_book_from_disk, once called
    iters,      \* the BookItems iterators taken from the loaded book
    static_files,   \* StaticFiles.static_files: the asset catalog
    hash_map,       \* StaticFiles.hash_map: original name -> fingerprinted name
    inputs,         \* the files the additional assets are read from
    sha,            \* the first 4 bytes of SHA-256, hex-encoded, of each content
    collected,      \* the logical names of the catalog as StaticFiles::new left them
    hash_results,   \* what the calls of hash_files returned, in order
    write_result,   \* what write_files returned, once called
    written,        \* the files written under the destination, in order
    log,            \* the records handed to the logger
    print_path,     \* render_markdown_with_path's path: the print path, if any
    symlink_resolve_ctx,    \* the Option<SymlinkResolveContext> of the rendering
    disk,           \* what canonicalize and read_dir find on the disk
    event_count,    \* the events of the document that adjust_links has seen
    adjusted,       \* the last event given to adjust_links, and what it returned
    converter,      \* the EventQuoteConverter of a rendering
    parsed,         \* the events of the document, as the parser gives them
    converted,      \* what converter.convert returned for the events so far
    toc,            \* book.toc: the TocItems of the book the renderer is given
    unwritable,     \* the paths at which utils::fs::create_file fails
    render_result,  \* what HtmlHandlebars::render returned, once called
    rendered_files, \* the files render has written, in order
    tree,           \* the directories and files of the project MDBook::init works on
    tree_before,    \* what they were when init was called
    init_result,    \* what MDBook::init returned, once called
    gitignore,      \* the paths the Gitignore of the watch loop matches as ignored
    rx,             \* the channel of the watcher: the events sent and not yet received
    first_event,    \* the event rx.recv() returned, while the loop sleeps
    sent,           \* every event the watcher has sent, in order
    batches,        \* the all_events of the turns of the loop so far
    rebuilds,       \* the calls of the closure: the paths, the turn, the outcome
    nav_chapters,   \* the "chapters" of the page's data: the flat chapter list
    current_path,   \* the "path" of the page's data: the chapter being rendered
    previous_out,   \* what the helper `previous` rendered, once called
    next_out        \* what the helper `next` rendered, once called

bookVars == <<summary, fs, result, iters>>

assetVars ==
    <<static_files, hash_map, inputs, sha, collected, hash_results,
      write_result, written, log>>

linkVars == <<print_path, symlink_resolve_ctx, disk, event_count, adjusted>>

quoteVars == <<converter, parsed, converted>>

\* The variables of the parts of the model that follow the link resolver.
htmlVars == <<toc, unwritable, render_result, rendered_files>>

initVars == <<tree, tree_before, init_result>>

watchVars == <<gitignore, rx, first_event, sent, batches, rebuilds>>

navVars == <<nav_chapters, current_path, previous_out, next_out>>

otherVars == <<quoteVars, htmlVars, initVars, watchVars, navVars>>

vars == <<summary, fs, result, iters, static_files, hash_map, inputs, sha,
          collected, hash_results, write_result, written, log,
          print_path, symlink_resolve_ctx, disk, event_count, adjusted,
          converter, parsed, converted,
          toc, unwritable, render_result, rendered_files,
          tree, tree_before, init_result,
          gitignore, rx, first_event, sent, batches, rebuilds,
          nav_chapters, current_path, previous_out, next_out>>

\* The handles that hold the iterators taken from the book.
IterIds == {"first", "second"}

(***************************************************************************)
(* Bounds of the model.                                                    *)
(***************************************************************************)
\* The number of SummaryItems (links and separators, at all depths) of a summary.
MaxItems == 3
\* The calls of next() made on an iterator after it has returned None.
MaxNone == 2
\* The assets of a catalog.
MaxAssets == 2
\* The calls of hash_files made on one StaticFiles.
MaxHashCalls == 2
\* The events of one document that pass through adjust_links.
MaxEvents == 2
\* The events of one document that pass through the quote converter.
MaxStream == 4
\* The TocItems (chapters and spacers, at all depths) of a book.
MaxToc == 3
\* The BookItems (at all depths) of the SUMMARY.md that MDBook::init finds.
MaxSummary == 2
\* The events the watcher sends while the watch loop is observed.
MaxSent == 3
\* The entries of the flat chapter list of a page.
MaxChapters == 3

(***************************************************************************)
(* Paths.  A path is the sequence of its components; an absolute path      *)
(* starts with the root component "/".                                     *)
(***************************************************************************)
is_absolute(p) == Len(p) > 0 /\ p[1] = "/"

\* Path::join: an absolute right-hand side replaces the left-hand side.
join(base, p) == IF is_absolute(p) THEN p ELSE base \o p

\* The book's source directory, the src_dir argument of the loader.
SrcDir == <<"/", "book", "src">>

(***************************************************************************)
(* Option and Result values.                                               *)
(***************************************************************************)
None == [some |-> FALSE, val |-> <<>>]

Some(v) == [some |-> TRUE, val |-> v]

Ok(v) == [ok |-> TRUE, val |-> v, err |-> <<>>]

\* An error is its chain of descriptions, the outermost first.
Err(chain) == [ok |-> FALSE, val |-> <<>>, err |-> chain]

ErrMsg(m, loc) == [msg |-> m, location |-> loc]

\* error_chain's chain_err: wrap the error of a failed result in a new description.
chain_err(r, m) == IF r.ok THEN r ELSE Err(<<m>> \o r.err)

(***************************************************************************)
(* The summary: SummaryItem is a Separator or a Link.                      *)
(***************************************************************************)
SummarySeparator == [kind |-> "Separator"]

Link(l, nested) ==
    [kind |-> "Link", name |-> l.name, location |-> l.location,
     number |-> l.number, nested_items |-> nested]

\* The links a summary of the model is made of: a name, a location (relative
\* to the source directory, or absolute) and an optional section number.
LinkPalette ==
    { [name |-> "Intro", location |-> <<"intro.md">>, number |-> None],
      [name |-> "Chapter 1", location |-> <<"/", "abs", "ch1.md">>,
       number |-> Some(<<1>>)],
      [name |-> "Nested", location |-> <<"/", "abs", "ch1.md">>,
       number |-> Some(<<1, 2>>)] }

RECURSIVE ForestsOfSize(_)
\* The sequences of SummaryItems holding exactly n items at all depths.
ForestsOfSize(n) ==
    IF n = 0 THEN {<<>>}
    ELSE UNION { { <<item>> \o rest :
                     item \in (IF k = 1 THEN {SummarySeparator} ELSE {})
                              \cup { Link(l, nested) :
                                       l \in LinkPalette,
                                       nested \in ForestsOfSize(k - 1) },
                     rest \in ForestsOfSize(n - k) } : k \in 1..n }

\* Every split of a sequence of items into the three sections of a Summary.
Summaries ==
    UNION { { [prefix_chapters |-> SubSeq(f, 1, c[1]),
               numbered_chapters |-> SubSeq(f, c[1] + 1, c[2]),
               suffix_chapters |-> SubSeq(f, c[2] + 1, Len(f))] :
                c \in { d \in (0..Len(f)) \X (0..Len(f)) : d[1] <= d[2] } } :
            f \in UNION { ForestsOfSize(n) : n \in 0..MaxItems } }

(***************************************************************************)
(* The file system.  A file is missing (it cannot be opened), holds text,  *)
(* or opens but is not valid UTF-8, so that read_to_string fails on it.    *)
(***************************************************************************)
IntroPath == join(SrcDir, <<"intro.md">>)

Ch1Path == <<"/", "abs", "ch1.md">>

TextFile(c) == [state |-> "text", content |-> c]

MissingFile == [state |-> "missing", content |-> ""]

BinaryFile == [state |-> "binary", content |-> ""]

FileSystems ==
    { [p \in {IntroPath, Ch1Path} |-> IF p = IntroPath THEN a ELSE b] :
        a \in {TextFile("# Intro"), MissingFile},
        b \in {TextFile("Hello World!"), MissingFile, BinaryFile} }

\* File::open: fails when there is no file at the path.
File_open(path) ==
    IF path \in DOMAIN fs /\ fs[path].state # "missing"
    THEN Ok(fs[path])
    ELSE Err(<<ErrMsg("No such file or directory", <<>>)>>)

\* Read::read_to_string: fails when the bytes are not valid UTF-8.
read_to_string(f) ==
    IF f.state = "text"
    THEN Ok(f.content)
    ELSE Err(<<ErrMsg("stream did not contain valid UTF-8", <<>>)>>)

(***************************************************************************)
(* The book: BookItem is a Separator or a Chapter.                         *)
(***************************************************************************)
BookSeparator == [kind |-> "Separator"]

\* Chapter::new: the number and the sub_items take their defaults.
Chapter_new(name, content) ==
    [kind |-> "Chapter", name |-> name, content |-> content,
     number |-> None, sub_items |-> <<>>]

RECURSIVE load_summary_item(_, _)
RECURSIVE load_chapter(_, _)
RECURSIVE load_items(_, _)

\* A collect that drops the items that fail to load instead of failing.
load_items_skipping_failures(items, src_dir) ==
    IF items = <<>> THEN Ok(<<>>)
    ELSE LET h == load_summary_item(Head(items), src_dir)
             t == load_items(Tail(items), src_dir)
         IN  IF ~t.ok THEN t
             ELSE IF ~h.ok THEN t ELSE Ok(<<h.val>> \o t.val)

\* items.iter().map(|i| load_summary_item(i, src_dir)).collect::<Result<_>>():
\* the items in order, or the first error.
load_items(items, src_dir) ==
    IF items = <<>> THEN Ok(<<>>)
    ELSE LET h == load_summary_item(Head(items), src_dir)
         IN  IF ~h.ok THEN h
             ELSE LET t == load_items(Tail(items), src_dir)
                  IN  IF ~t.ok THEN t ELSE Ok(<<h.val>> \o t.val)

\* A load_chapter that leaves the chapter's number at its default.
load_chapter_without_number(link, src_dir) ==
    LET location == IF is_absolute(link.location)
                    THEN link.location
                    ELSE join(src_dir, link.location)
        f == chain_err(File_open(location),
                       ErrMsg("Chapter file not found", link.location))
    IN  IF ~f.ok THEN f
        ELSE LET content == read_to_string(f.val)
             IN  IF ~content.ok THEN content
                 ELSE LET ch == Chapter_new(link.name, content.val)
                          sub_items == load_items(link.nested_items, src_dir)
                      IN  IF ~sub_items.ok THEN sub_items
                          ELSE Ok([ch EXCEPT !.sub_items = sub_items.val])

load_chapter(link, src_dir) ==
    LET location == IF is_absolute(link.location)
                    THEN link.location
                    ELSE join(src_dir, link.location)
        f == chain_err(File_open(location),
                       ErrMsg("Chapter file not found", link.location))
    IN  IF ~f.ok THEN f
        ELSE LET content == read_to_string(f.val)
             IN  IF ~content.ok THEN content
                 ELSE LET ch == [Chapter_new(link.name, content.val)
                                   EXCEPT !.number = link.number]
                          sub_items == load_items(link.nested_items, src_dir)
                      IN  IF ~sub_items.ok THEN sub_items
                          ELSE Ok([ch EXCEPT !.sub_items = sub_items.val])

load_summary_item(item, src_dir) ==
    IF item.kind = "Separator"
    THEN Ok(BookSeparator)
    ELSE load_chapter(item, src_dir)

\* A loader that chains the numbered chapters before the prefix chapters.
load_book_numbered_first(s, src_dir) ==
    LET summary_items ==
            s.numbered_chapters \o s.prefix_chapters \o s.suffix_chapters
        chapters == chain_err(load_items(summary_items, src_dir),
                              ErrMsg("Couldn't load chapters from disk", <<>>))
    IN  IF ~chapters.ok THEN chapters
        ELSE Ok([sections |-> chapters.val])

load_book_from_disk(s, src_dir) ==
    LET summary_items ==
            s.prefix_chapters \o s.numbered_chapters \o s.suffix_chapters
        chapters == chain_err(load_items(summary_items, src_dir),
                              ErrMsg("Couldn't load chapters from disk", <<>>))
    IN  IF ~chapters.ok THEN chapters
        ELSE Ok([sections |-> chapters.val])

(***************************************************************************)
(* The depth-first iterator.  A &BookItem is the position of the item in   *)
(* the tree: the indices leading to it from Book.sections.                 *)
(***************************************************************************)
RECURSIVE Deref(_, _)
\* The item a reference into `items` points to.
Deref(items, ref) ==
    IF Len(ref) = 1 THEN items[ref[1]]
    ELSE Deref(items[ref[1]].sub_items, Tail(ref))

\* Vec::iter into the children of the item at `ref` (<<>>: the sections).
RefsOf(ref, items) == [k \in 1..Len(items) |-> ref \o <<k>>]

\* Iterator::rev
rev(s) == [k \in 1..Len(s) |-> s[Len(s) + 1 - k]]

\* VecDeque::push_front
push_front(d, x) == <<x>> \o d

RECURSIVE push_front_each(_, _)
\* for x in xs { d.push_front(x) }
push_front_each(d, xs) ==
    IF xs = <<>> THEN d
    ELSE push_front_each(push_front(d, Head(xs)), Tail(xs))

\* An iter that resumes where a live iterator of the book stands.
iter_shared_cursor(book) ==
    IF \E j \in IterIds : iters[j].live
    THEN [items |-> iters[CHOOSE j \in IterIds : iters[j].live].it.items]
    ELSE [items |-> RefsOf(<<>>, book.sections)]

\* Book::iter: the references to the sections, collected into the deque.
Book_iter(book) == [items |-> RefsOf(<<>>, book.sections)]

\* A next that extends the deque at its back: a breadth-first iterator.
next_breadth_first(self, book) ==
    IF self.items = <<>>
    THEN [self |-> self, item |-> None]
    ELSE LET ref == Head(self.items)
             popped == [self EXCEPT !.items = Tail(self.items)]
             it == Deref(book.sections, ref)
         IN  IF it.kind = "Chapter"
             THEN [self |-> [popped EXCEPT !.items =
                               popped.items \o RefsOf(ref, it.sub_items)],
                   item |-> Some(ref)]
             ELSE [self |-> popped, item |-> Some(ref)]

\* A next that does not descend into the sub_items of a chapter.
next_shallow(self, book) ==
    IF self.items = <<>>
    THEN [self |-> self, item |-> None]
    ELSE [self |-> [self EXCEPT !.items = Tail(self.items)],
          item |-> Some(Head(self.items))]

\* BookItems::next: the iterator after the call, and the item returned.
BookItems_next(self, book) ==
    IF self.items = <<>>
    THEN [self |-> self, item |-> None]
    ELSE LET ref == Head(self.items)
             popped == [self EXCEPT !.items = Tail(self.items)]
             it == Deref(book.sections, ref)
         IN  IF it.kind = "Chapter"
             THEN [self |-> [popped EXCEPT !.items =
                               push_front_each(popped.items,
                                               rev(RefsOf(ref, it.sub_items)))],
                   item |-> Some(ref)]
             ELSE [self |-> popped, item |-> Some(ref)]

(***************************************************************************)
(* The state machine of the document tree.                                 *)
(***************************************************************************)
\* A handle that holds no iterator yet.
NoIter ==
    [live |-> FALSE, it |-> [items |-> <<>>], returned |-> <<>>,
     taken_during |-> FALSE]

Loaded == result.some /\ result.val.ok

TheBook == result.val.val

NoneCount(returned) == Cardinality({k \in 1..Len(returned) : ~returned[k].some})

\* An iterator that has yielded an item and has not yet returned None.
PartlyConsumed(i) ==
    /\ iters[i].live
    /\ iters[i].returned # <<>>
    /\ NoneCount(iters[i].returned) = 0

BookIdle ==
    /\ summary = [prefix_chapters |-> <<>>, numbered_chapters |-> <<>>,
                  suffix_chapters |-> <<>>]
    /\ fs = <<>>
    /\ result = None
    /\ iters = [i \in IterIds |-> NoIter]

AssetsIdle ==
    /\ static_files = <<>>
    /\ hash_map = <<>>
    /\ inputs = <<>>
    /\ sha = <<>>
    /\ collected = <<>>
    /\ hash_results = <<>>
    /\ write_result = None
    /\ written = <<>>
    /\ log = <<>>

LinksIdle ==
    /\ print_path = None
    /\ symlink_resolve_ctx = None
    /\ disk = <<>>
    /\ event_count = 0
    /\ adjusted = None

QuotesIdle ==
    /\ converter = [enabled |-> FALSE, convert_text |-> TRUE]
    /\ parsed = <<>>
    /\ converted = <<>>

HtmlIdle ==
    /\ toc = <<>>
    /\ unwritable = {}
    /\ render_result = None
    /\ rendered_files = <<>>

InitIdle ==
    /\ tree = <<>>
    /\ tree_before = <<>>
    /\ init_result = None

WatchIdle ==
    /\ gitignore = {}
    /\ rx = <<>>
    /\ first_event = None
    /\ sent = <<>>
    /\ batches = <<>>
    /\ rebuilds = <<>>

NavIdle ==
    /\ nav_chapters = <<>>
    /\ current_path = <<>>
    /\ previous_out = None
    /\ next_out = None

OthersIdle == QuotesIdle /\ HtmlIdle /\ InitIdle /\ WatchIdle /\ NavIdle

BookInit ==
    /\ summary \in Summaries
    /\ fs \in FileSystems
    /\ result = None
    /\ iters = [i \in IterIds |-> NoIter]
    /\ AssetsIdle
    /\ LinksIdle
    /\ OthersIdle

\* load_book_from_disk(&summary, src_dir)
Load ==
    /\ ~result.some
    /\ result' = Some(load_book_from_disk(summary, SrcDir))
    /\ UNCHANGED <<summary, fs, iters>>
    /\ UNCHANGED assetVars
    /\ UNCHANGED linkVars
    /\ UNCHANGED otherVars

\* let it = book.iter(): `returned` records what the calls of next() gave, and
\* taken_during whether another iterator was partly consumed at that time.
Iter(i) ==
    /\ Loaded
    /\ iters' = [iters EXCEPT ![i] =
                   [live |-> TRUE, it |-> Book_iter(TheBook), returned |-> <<>>,
                    taken_during |->
                        \E j \in IterIds \ {i} : PartlyConsumed(j)]]
    /\ UNCHANGED <<summary, fs, result>>
    /\ UNCHANGED assetVars
    /\ UNCHANGED linkVars
    /\ UNCHANGED otherVars

\* it.next()
IterNext(i) ==
    /\ Loaded
    /\ iters[i].live
    /\ NoneCount(iters[i].returned) < MaxNone
    /\ LET r == BookItems_next(iters[i].it, TheBook)
       IN  iters' = [iters EXCEPT ![i].it = r.self,
                                  ![i].returned = Append(@, r.item)]
    /\ UNCHANGED <<summary, fs, result>>
    /\ UNCHANGED assetVars
    /\ UNCHANGED linkVars
    /\ UNCHANGED otherVars

BookNext ==
    \/ Load
    \/ \E i \in IterIds : Iter(i)
    \/ \E i \in IterIds : IterNext(i)

SpecBook == BookInit /\ [][BookNext]_vars

(***************************************************************************)
(* Static assets.  A file name is the sequence of its parts: the           *)
(* separators ".", "/" and "-", and the text between them.  A content is a *)
(* sequence of chunks: plain bytes, or the bytes of one directive          *)
(* {{ resource "<name>" }}, which is what the regex of write_files matches.*)
(***************************************************************************)
BookJs == <<"book", ".", "js">>

GeneralCss == <<"css", "/", "general", ".", "css">>

FaviconPng == <<"favicon", ".", "png">>

FontAwesomeTtf == <<"FontAwesome", "/", "fonts", "/", "FontAwesome", ".", "ttf">>

LicenseTxt == <<"fonts", "/", "OPEN", "-", "SANS", "-", "LICENSE", ".", "txt">>

CustomJs == <<"theme", "/", "custom", ".", "js">>

HiddenCss == <<".", "hidden", ".", "css">>

NotesTxt == <<"notes", ".", "txt">>

Cname == <<"CNAME">>

UnknownJs == <<"nope", ".", "js">>

\* The names given to add_builtin, and those of additional_css and additional_js.
BuiltinNames == {BookJs, GeneralCss, FaviconPng, FontAwesomeTtf, LicenseTxt}

AdditionalNames == {BookJs, CustomJs, HiddenCss, NotesTxt, Cname}

Bytes(v) == [kind |-> "bytes", v |-> v]

Directive(name) == [kind |-> "directive", v |-> name]

EmptyContent == <<>>

RefBookContent == <<Directive(BookJs)>>

MixedContent == <<Bytes(<<"/* custom */">>), Directive(UnknownJs), Directive(GeneralCss)>>

Contents == {EmptyContent, RefBookContent, MixedContent}

\* The digests of the empty content and of {{ resource "book.js" }} are those of
\* test_write_directive; a third stands for every other value of the 4 bytes.
Digests == {"e3b0c442", "635c9cdc", "0f1e2d3c"}

\* SHA-256 cut to 4 bytes: a function of the bytes alone, which the model does
\* not compute; contents that differ may have the same 4 bytes.
DigestFunctions ==
    { f \in [Contents -> Digests] :
        f[EmptyContent] = "e3b0c442" /\ f[RefBookContent] = "635c9cdc" }

\* root.join(&custom_file)
Root == <<"book", "/">>

InputLocation(filename) == Root \o filename

Builtin(filename, data) ==
    [kind |-> "Builtin", filename |-> filename, data |-> data,
     input_location |-> <<>>]

Additional(filename) ==
    [kind |-> "Additional", filename |-> filename, data |-> <<>>,
     input_location |-> InputLocation(filename)]

\* The catalogs StaticFiles::new and add_builtin can build, of 1..MaxAssets assets.
Catalogs ==
    UNION { [1..n -> { Builtin(f, d) : f \in BuiltinNames, d \in Contents }
                     \cup { Additional(f) : f \in AdditionalNames }] :
            n \in 1..MaxAssets }

\* The files at the input locations of a catalog: each is there or missing.
InputsOf(catalog) ==
    [ {catalog[k].input_location :
         k \in {i \in 1..Len(catalog) : catalog[i].kind = "Additional"}}
      -> {[state |-> "missing", content |-> <<>>]}
         \cup {[state |-> "file", content |-> c] : c \in Contents} ]

(***************************************************************************)
(* String functions on file names.                                         *)
(***************************************************************************)
\* str::splitn(2, '.') and the pairing of hash_files: the text before the
\* first '.' and the text after it, or None when the name has no '.'.
split_at_first_dot(filename) ==
    LET dots == {k \in 1..Len(filename) : filename[k] = "."}
    IN  IF dots = {} THEN None
        ELSE LET k == CHOOSE d \in dots : \A e \in dots : d <= e
             IN  Some([name |-> SubSeq(filename, 1, k - 1),
                       suffix |-> SubSeq(filename, k + 1, Len(filename))])

starts_with(str, prefix) ==
    Len(prefix) <= Len(str) /\ SubSeq(str, 1, Len(prefix)) = prefix

ends_with(str, suffix) ==
    /\ Len(suffix) <= Len(str)
    /\ SubSeq(str, Len(str) - Len(suffix) + 1, Len(str)) = suffix

\* format!("{}-{}.{}", name, hex, suffix)
new_filename(name, hex, suffix) == name \o <<"-", hex, ".">> \o suffix

\* HashMap::insert
insert(map, k, v) == [x \in DOMAIN map \cup {k} |-> IF x = k THEN v ELSE map[x]]

\* The text assets of write_files.
is_text(filename) ==
    ends_with(filename, <<".", "css">>) \/ ends_with(filename, <<".", "js">>)

RECURSIVE Repeat(_, _)
Repeat(str, n) == IF n = 0 THEN <<>> ELSE str \o Repeat(str, n - 1)

\* utils::fs::path_to_root: "../" for every directory of the path.
path_to_root(filename) ==
    Repeat(<<"..", "/">>, Cardinality({k \in 1..Len(filename) : filename[k] = "/"}))

(***************************************************************************)
(* StaticFiles::hash_files                                                 *)
(***************************************************************************)
\* File::open(input_location)
open_input(input_location) ==
    IF input_location \in DOMAIN inputs /\ inputs[input_location].state = "file"
    THEN Ok(inputs[input_location].content)
    ELSE Err(<<ErrMsg("No such file or directory", <<>>)>>)

\* hex::encode(&Sha256::digest(data)[..4])
builtin_digest(data) == sha[data]

\* A digest of an additional file that is taken before any byte is fed to it.
additional_digest_of_nothing(input_location) ==
    LET f == chain_err(open_input(input_location),
                       ErrMsg("open static file for hashing", <<>>))
    IN  IF ~f.ok THEN f ELSE Ok(sha[EmptyContent])

\* The digest of an additional file: the file is opened, read to its end in
\* pieces of 1024 bytes, each fed to the hasher.
additional_digest(input_location) ==
    LET f == chain_err(open_input(input_location),
                       ErrMsg("open static file for hashing", <<>>))
    IN  IF ~f.ok THEN f ELSE Ok(sha[f.val])

\* One turn of the loop of hash_files, on a built-in asset.
hash_builtin(file, map) ==
    LET parts == split_at_first_dot(file.filename)
    IN  IF /\ parts.some
           /\ parts.val.name # <<>>
           /\ parts.val.suffix # <<>>
           /\ parts.val.suffix # <<"txt">>
           /\ ~starts_with(parts.val.name, <<"FontAwesome", "/", "fonts", "/">>)
        THEN LET hex == builtin_digest(file.data)
                 new == new_filename(parts.val.name, hex, parts.val.suffix)
             IN  Ok([file |-> [file EXCEPT !.filename = new],
                     map |-> insert(map, file.filename, new)])
        ELSE Ok([file |-> file, map |-> map])

\* One turn of the loop of hash_files, on an additional asset.
hash_additional(file, map) ==
    LET parts == split_at_first_dot(file.filename)
    IN  IF /\ parts.some
           /\ parts.val.name # <<>>
           /\ parts.val.suffix # <<>>
        THEN LET hex == additional_digest(file.input_location)
             IN  IF ~hex.ok THEN hex
                 ELSE LET new == new_filename(parts.val.name, hex.val,
                                              parts.val.suffix)
                      IN  Ok([file |-> [file EXCEPT !.filename = new],
                              map |-> insert(map, file.filename, new)])
        ELSE Ok([file |-> file, map |-> map])

RECURSIVE hash_loop(_, _, _)
\* for static_file in &mut self.static_files, from the k-th on: an error
\* returns at once, and leaves what the earlier turns renamed and recorded.
hash_loop(files, map, k) ==
    IF k > Len(files)
    THEN [res |-> Ok(<<>>), static_files |-> files, hash_map |-> map]
    ELSE LET r == IF files[k].kind = "Builtin"
                  THEN hash_builtin(files[k], map)
                  ELSE hash_additional(files[k], map)
         IN  IF ~r.ok
             THEN [res |-> r, static_files |-> files, hash_map |-> map]
             ELSE hash_loop([files EXCEPT ![k] = r.val.file], r.val.map, k + 1)

hash_files(files, map) == hash_loop(files, map, 1)

(***************************************************************************)
(* StaticFiles::write_files                                                *)
(***************************************************************************)
LogRecord(level, msg, arg) == [level |-> level, msg |-> msg, arg |-> arg]

\* A closure that does not look the name up in the hash_map.
resource_replacement_unhashed(map, filename, name) ==
    path_to_root(filename) \o name

\* The closure given to replace_all: what stands for {{ resource "<name>" }} in
\* the asset written as `filename`.
resource_replacement(map, filename, name) ==
    LET resource_filename == IF name \in DOMAIN map THEN map[name] ELSE name
    IN  path_to_root(filename) \o resource_filename

\* Regex::replace_all with that closure: every directive is replaced, the other
\* bytes are kept.
replace_all(data, map, filename) ==
    [c \in 1..Len(data) |->
        IF data[c].kind = "directive"
        THEN Bytes(resource_replacement(map, filename, data[c].v))
        ELSE data[c]]

\* utils::fs::write_file(destination, filename, data)
write_file(files, filename, data) ==
    Append(files, [filename |-> filename, data |-> data])

\* One turn of the loop of write_files, on a built-in asset.
write_builtin(file, map, out, lg) ==
    LET data == IF is_text(file.filename)
                THEN replace_all(file.data, map, file.filename)
                ELSE file.data
    IN  [res |-> Ok(<<>>),
         written |-> write_file(out, file.filename, data),
         log |-> Append(lg, LogRecord("debug", "Writing builtin", file.filename))]

\* One turn of the loop of write_files, on an additional asset: a text asset is
\* read, rewritten and written, any other is copied.
write_additional(file, map, out, lg) ==
    LET lg2 == Append(lg, LogRecord("debug", "Copying", file.filename))
        src == open_input(file.input_location)
    IN  IF is_text(file.filename)
        THEN IF ~src.ok
             THEN [res |-> src, written |-> out, log |-> lg2]
             ELSE [res |-> Ok(<<>>),
                   written |-> write_file(out, file.filename,
                                  replace_all(src.val, map, file.filename)),
                   log |-> lg2]
        ELSE LET copied == chain_err(src, ErrMsg("Unable to copy", file.filename))
             IN  IF ~copied.ok
                 THEN [res |-> copied, written |-> out, log |-> lg2]
                 ELSE [res |-> Ok(<<>>),
                       written |-> write_file(out, file.filename, src.val),
                       log |-> lg2]

RECURSIVE write_loop(_, _, _, _, _)
\* A loop that goes on with the later assets after a failure, and reports the
\* failure at the end.
write_loop_to_the_end(files, map, out, lg, k) ==
    IF k > Len(files)
    THEN [res |-> Ok([hash_map |-> map]), written |-> out, log |-> lg]
    ELSE LET r == IF files[k].kind = "Builtin"
                  THEN write_builtin(files[k], map, out, lg)
                  ELSE write_additional(files[k], map, out, lg)
             rest == write_loop(files, map, r.written, r.log, k + 1)
         IN  IF r.res.ok THEN rest
             ELSE [res |-> r.res, written |-> rest.written, log |-> rest.log]

\* for static_file in self.static_files, from the k-th on, and the result:
\* the first error, or the ResourceHelper holding the hash_map.
write_loop(files, map, out, lg, k) ==
    IF k > Len(files)
    THEN [res |-> Ok([hash_map |-> map]), written |-> out, log |-> lg]
    ELSE LET r == IF files[k].kind = "Builtin"
                  THEN write_builtin(files[k], map, out, lg)
                  ELSE write_additional(files[k], map, out, lg)
         IN  IF ~r.res.ok THEN r
             ELSE write_loop(files, map, r.written, r.log, k + 1)

\* A write_files that fingerprints the catalog itself before it writes.
write_files_after_hashing(files, map, out, lg) ==
    LET h == hash_files(files, map)
    IN  write_loop(h.static_files, h.hash_map, out, lg, 1)

write_files(files, map, out, lg) == write_loop(files, map, out, lg, 1)

(***************************************************************************)
(* The state machine of the asset pipeline.                                *)
(***************************************************************************)
\* StaticFiles::new, with the add_builtin calls made on it: the catalog, a
\* file system for its additional files, and an empty hash_map.
AssetsInit ==
    /\ static_files \in Catalogs
    /\ inputs \in InputsOf(static_files)
    /\ sha \in DigestFunctions
    /\ hash_map = <<>>
    /\ collected = [k \in 1..Len(static_files) |-> static_files[k].filename]
    /\ hash_results = <<>>
    /\ write_result = None
    /\ written = <<>>
    /\ log = <<>>
    /\ BookIdle
    /\ LinksIdle
    /\ OthersIdle

\* static_files.hash_files(): possible until write_files has consumed self.
HashFiles ==
    /\ ~write_result.some
    /\ Len(hash_results) < MaxHashCalls
    /\ LET r == hash_files(static_files, hash_map)
       IN  /\ static_files' = r.static_files
           /\ hash_map' = r.hash_map
           /\ hash_results' = Append(hash_results, r.res)
    /\ UNCHANGED <<inputs, sha, collected, write_result, written, log>>
    /\ UNCHANGED bookVars
    /\ UNCHANGED linkVars
    /\ UNCHANGED otherVars

\* static_files.write_files(destination): consumes self.
WriteFiles ==
    /\ ~write_result.some
    /\ LET r == write_files(static_files, hash_map, written, log)
       IN  /\ write_result' = Some(r.res)
           /\ written' = r.written
           /\ log' = r.log
    /\ UNCHANGED <<static_files, hash_map, inputs, sha, collected, hash_results>>
    /\ UNCHANGED bookVars
    /\ UNCHANGED linkVars
    /\ UNCHANGED otherVars

AssetsNext ==
    \/ HashFiles
    \/ WriteFiles

SpecAssets == AssetsInit /\ [][AssetsNext]_vars

(***************************************************************************)
(* Link destinations (utils/mod.rs).  A destination, like a file name, is  *)
(* the sequence of its parts: the characters ".", "/", "#", ":" and the    *)
(* words between them.  No word but "md" starts with md, so the text .md   *)
(* occurs in a destination exactly where "." is followed by "md".          *)
(***************************************************************************)
LowerWords ==
    {"a", "b", "x", "md", "html", "txt", "sec", "ch", "index", "https",
     "intro", "one", "notes"}

UpperWords == {"HTTPS", "README"}

\* The destinations of the links of a document: the relative ones, the
\* fragments among them, and those that start with a scheme.
Dests ==
    LET DestPrefixes == {<<>>, <<"ch", "/">>}
        DestStems == {<<>>, <<"a">>, <<"index">>}
        DestSuffixes ==
            {<<>>, <<".", "md">>, <<".", "html">>, <<".", "md", ".", "txt">>}
        DestAnchors == {<<>>, <<"#", "sec">>, <<"#", "b", ".", "md">>}
        DestSchemes == {<<"https", ":", "/", "/">>, <<"HTTPS", ":", "/", "/">>}
    IN  { p \o s \o e \o a :
            p \in DestPrefixes, s \in DestStems, e \in DestSuffixes,
            a \in DestAnchors }
        \cup
        { p \o s :
            p \in DestSchemes,
            s \in {<<"a">>, <<"a", ".", "md">>, <<"a", ".", "md", "#", "sec">>} }

\* The destinations of its images and of the attributes of its raw HTML.
ImageDests ==
    {<<"a", ".", "md">>, <<"#", "sec">>,
     <<"https", ":", "/", "/", "a", ".", "md">>}

\* pulldown_cmark's events: the start of a link, the start of an image, raw
\* HTML, and the others.  Raw HTML is the sequence of its tags, of each of
\* which the model keeps the name and the attributes; of an attribute, the
\* name, the quote around the value, and the value.
LinkEvent(dest) == [kind |-> "Link", dest |-> dest, html |-> <<>>]

ImageEvent(dest) == [kind |-> "Image", dest |-> dest, html |-> <<>>]

HtmlAttr(name, quote, value) == [name |-> name, quote |-> quote, value |-> value]

HtmlTag(tag, attrs) == [tag |-> tag, attrs |-> attrs]

HtmlEvent(html) == [kind |-> "Html", dest |-> <<>>, html |-> html]

TextEvent == [kind |-> "Text", dest |-> <<>>, html |-> <<>>]

Events ==
    LET Href == <<"href">>
        Src == <<"src">>
        AttrLists(d) ==
            {<<HtmlAttr(Href, "\"", d)>>,
             <<HtmlAttr(Src, "\"", d)>>,
             <<HtmlAttr(Href, "'", d)>>,
             <<HtmlAttr(<<"data", "-", "src">>, "\"", d)>>,
             <<HtmlAttr(<<"id">>, "\"", d)>>,
             <<HtmlAttr(Href, "\"", d), HtmlAttr(Src, "\"", d)>>,
             <<HtmlAttr(Href, "\"", <<>>)>>}
        Tags ==
            { HtmlTag("a", as) : as \in UNION { AttrLists(d) : d \in ImageDests } }
            \cup { HtmlTag("img", <<HtmlAttr(Src, "\"", d)>>) : d \in ImageDests }
            \cup { HtmlTag("div", <<HtmlAttr(Href, "\"", d)>>) : d \in ImageDests }
    IN  { LinkEvent(d) : d \in Dests }
        \cup { ImageEvent(d) : d \in ImageDests }
        \cup { HtmlEvent(<<t>>) : t \in Tags }
        \cup { HtmlEvent(<<HtmlTag("a", <<HtmlAttr(Href, "\"", <<"a", ".", "md">>)>>),
                           HtmlTag("img", <<HtmlAttr(Src, "\"", <<"a", ".", "md">>)>>)>>) }
        \cup { TextEvent }

\* The print paths: none, or the path of the chapter being printed.
PrintPaths ==
    {None, Some(<<"ch", "/", "one", ".", "md">>), Some(<<"notes", ".", "txt">>)}

\* The source directory of the book.
CtxSrcDir == <<"/", "src">>

SrcOf(rel) == CtxSrcDir \o <<"/">> \o rel

IntroMd == <<"intro", ".", "md">>

AMd == <<"a", ".", "md">>

ChOneMd == <<"ch", "/", "one", ".", "md">>

ChIndexMd == <<"ch", "/", "index", ".", "md">>

\* to_render_paths: canonical source path -> destination html path, both
\* absolute.  All the chapters; all but a.md; all but the chapters that refer.
RenderMaps ==
    LET OutOf(rel) == <<"/", "out", "/">> \o rel
        IntroHtml == <<"intro", ".", "html">>
        AHtml == <<"a", ".", "html">>
        ChOneHtml == <<"ch", "/", "one", ".", "html">>
        ChIndexHtml == <<"ch", "/", "index", ".", "html">>
    IN  { (SrcOf(IntroMd) :> OutOf(IntroHtml)) @@ (SrcOf(AMd) :> OutOf(AHtml))
            @@ (SrcOf(ChOneMd) :> OutOf(ChOneHtml))
            @@ (SrcOf(ChIndexMd) :> OutOf(ChIndexHtml)),
          (SrcOf(IntroMd) :> OutOf(IntroHtml))
            @@ (SrcOf(ChOneMd) :> OutOf(ChOneHtml)),
          (SrcOf(AMd) :> OutOf(AHtml))
            @@ (SrcOf(ChIndexMd) :> OutOf(ChIndexHtml)) }

SymlinkResolveContext(to_render_paths, src_dir, current_md_relative_path) ==
    [to_render_paths |-> to_render_paths, src_dir |-> src_dir,
     current_md_relative_path |-> current_md_relative_path]

Contexts ==
    {None} \cup
    { Some(SymlinkResolveContext(m, CtxSrcDir, c)) :
        m \in RenderMaps, c \in {ChOneMd, ChIndexMd} }

\* A disk that is not looked at.
NoDisk == [canon |-> <<>>, readme_dirs |-> {}]

\* The disk: `canon` gives the canonical path of every path that names a
\* file, `readme_dirs` the directories in which read_dir finds a readme.  No
\* file lies outside the source directory.  On the first disk every chapter is
\* a file of its own; on the second ch/one.md is a symbolic link to intro.md
\* and ch/index.md is missing; on the third only intro.md is there.
Disks ==
    { [canon |-> (SrcOf(IntroMd) :> SrcOf(IntroMd)) @@ (SrcOf(AMd) :> SrcOf(AMd))
                    @@ (SrcOf(ChOneMd) :> SrcOf(ChOneMd))
                    @@ (SrcOf(ChIndexMd) :> SrcOf(ChIndexMd)),
       readme_dirs |-> r] : r \in {{}, {<<"ch">>}} }
    \cup
    { [canon |-> (SrcOf(IntroMd) :> SrcOf(IntroMd)) @@ (SrcOf(AMd) :> SrcOf(AMd))
                    @@ (SrcOf(ChOneMd) :> SrcOf(IntroMd)),
       readme_dirs |-> {}],
      [canon |-> (SrcOf(IntroMd) :> SrcOf(IntroMd)),
       readme_dirs |-> {}] }

(***************************************************************************)
(* std::path on such strings.                                              *)
(***************************************************************************)
\* The place of the last "/" of a path, 0 when it has none.
LastSlash(p) ==
    LET slashes == {k \in 1..Len(p) : p[k] = "/"}
    IN  IF slashes = {} THEN 0
        ELSE CHOOSE k \in slashes : \A l \in slashes : l <= k

\* Path::parent
Path_parent(p) ==
    LET Before(k) ==
            IF k = 0 THEN Some(<<>>)
            ELSE IF k = 1 THEN Some(<<"/">>)
            ELSE Some(SubSeq(p, 1, k - 1))
    IN  IF p = <<>> \/ p = <<"/">> THEN None ELSE Before(LastSlash(p))

\* Path::ends_with, for a child of one component.
Path_ends_with(p, child) == SubSeq(p, LastSlash(p) + 1, Len(p)) = child

\* Path::join
PathBuf_join(base, p) == IF is_absolute(p) THEN p ELSE base \o <<"/">> \o p

RECURSIVE Components(_)
\* Path::components, the root left out.
Components(p) ==
    LET Split(k) ==
            (IF k = 1 THEN <<>> ELSE <<SubSeq(p, 1, k - 1)>>)
            \o Components(SubSeq(p, k + 1, Len(p)))
    IN  IF p = <<>> THEN <<>>
        ELSE IF \E i \in 1..Len(p) : p[i] = "/"
        THEN Split(CHOOSE i \in 1..Len(p) :
                     p[i] = "/" /\ \A j \in 1..(i - 1) : p[j] # "/")
        ELSE <<p>>

RECURSIVE JoinComponents(_)
\* The components collected into a PathBuf.
JoinComponents(cs) ==
    IF cs = <<>> THEN <<>>
    ELSE IF Len(cs) = 1 THEN cs[1]
    ELSE cs[1] \o <<"/">> \o JoinComponents(Tail(cs))

\* std::fs::canonicalize
canonicalize(p) ==
    IF p \in DOMAIN disk.canon THEN Ok(disk.canon[p])
    ELSE Err(<<ErrMsg("No such file or directory", p)>>)

\* A diff_paths that gives the path below the root of both.
diff_paths_below_root(p, base) == Some(JoinComponents(Tail(Components(p))))

\* pathdiff::diff_paths(path, base)
diff_paths(p, base) ==
    LET Strip(a, b, n) ==
            Some(JoinComponents([i \in 1..(Len(b) - n) |-> <<".", ".">>]
                                \o SubSeq(a, n + 1, Len(a))))
        Diff(a, b) ==
            Strip(a, b,
                  CHOOSE n \in 0..Len(a) :
                    /\ n <= Len(b)
                    /\ SubSeq(a, 1, n) = SubSeq(b, 1, n)
                    /\ \A m \in (n + 1)..Len(a) :
                        ~(m <= Len(b) /\ SubSeq(a, 1, m) = SubSeq(b, 1, m)))
    IN  IF is_absolute(p) # is_absolute(base)
        THEN IF is_absolute(p) THEN Some(p) ELSE None
        ELSE Diff(Components(p), Components(base))

(***************************************************************************)
(* adjust_links                                                            *)
(***************************************************************************)
\* SCHEME_LINK.is_match: ^[a-z][a-z0-9+.-]*:
SCHEME_LINK_is_match(dest) ==
    \E k \in 2..Len(dest) :
        /\ dest[k] = ":"
        /\ dest[1] \in LowerWords
        /\ \A j \in 2..(k - 1) : dest[j] \in LowerWords \cup {"+", ".", "-"}

\* MD_LINK.captures: (?P<link>.*)\.md(?P<anchor>#.*)?  The greedy .* takes
\* the text up to the last .md of the destination; the anchor is what follows
\* that .md when it starts with '#'.
MD_LINK_captures(dest) ==
    LET IsMd(k) == dest[k] = "." /\ dest[k + 1] = "md"
        Captures(k) ==
            Some([link |-> SubSeq(dest, 1, k - 1),
                  anchor |-> IF k + 2 <= Len(dest) /\ dest[k + 2] = "#"
                             THEN Some(SubSeq(dest, k + 2, Len(dest)))
                             ELSE None])
    IN  IF \E k \in 1..(Len(dest) - 1) : IsMd(k)
        THEN Captures(CHOOSE k \in 1..(Len(dest) - 1) :
                        IsMd(k) /\ \A j \in (k + 1)..(Len(dest) - 1) : ~IsMd(j))
        ELSE None

\* find_readme_path(dir); read_dir fails on the empty path.
find_readme_path(dir) ==
    IF dir # <<>> /\ dir \in disk.readme_dirs
    THEN Some(PathBuf_join(dir, <<"README", ".", "md">>))
    ELSE None

\* A path named index.md is taken back to the readme of its directory.
original_md_path(p) ==
    LET OrSelf(readme_path) == IF readme_path.some THEN readme_path.val ELSE p
        Readme(parent) ==
            IF parent.some THEN OrSelf(find_readme_path(parent.val)) ELSE p
    IN  IF Path_ends_with(p, <<"index", ".", "md">>)
        THEN Readme(Path_parent(p))
        ELSE p

\* The path that is canonicalized: absolute, or under src_dir.
absolute_md_path(p, src_dir) ==
    IF is_absolute(p) THEN p ELSE PathBuf_join(src_dir, p)

\* A fragment-only link whose base keeps its .md.
fix_fragment_keeping_md(dest, path) ==
    IF path.some THEN path.val \o dest ELSE dest

\* The fragment-only link.
fix_fragment(dest, path) ==
    IF path.some
    THEN (IF ends_with(path.val, <<".", "md">>)
          THEN SubSeq(path.val, 1, Len(path.val) - 2) \o <<".", "html">>
          ELSE path.val) \o dest
    ELSE dest

\* What fixed_link starts with: the directory of the print path and a '/'.
base_prefix(path) ==
    LET Slashed(base) == IF base # <<>> THEN base \o <<"/">> ELSE <<>>
    IN  IF path.some THEN Slashed(Path_parent(path.val).val) ELSE <<>>

\* The resolution of a .md link through the context: whether it succeeded,
\* the relative path it found, and the log.
resolve_symlink(link, ctx, lg) ==
    LET failed == [success |-> FALSE, rel |-> <<>>, log |-> lg]
        Diffed(target_relative_html_path) ==
            IF ~target_relative_html_path.some THEN failed
            ELSE [success |-> TRUE, rel |-> target_relative_html_path.val,
                  log |-> lg]
        FromParent(target_html_path, current_parent) ==
            IF ~current_parent.some THEN failed
            ELSE Diffed(diff_paths(target_html_path, current_parent.val))
        LookedUp(target_md_relative_path, target_md_path, current_md_path) ==
            IF ~(target_md_path.ok /\ current_md_path.ok) THEN failed
            ELSE IF target_md_path.val \notin DOMAIN ctx.to_render_paths
            THEN [failed EXCEPT !.log =
                    Append(lg, LogRecord("warn",
                                         "Links to markdown file, which is not translated",
                                         target_md_relative_path))]
            ELSE IF current_md_path.val \notin DOMAIN ctx.to_render_paths
            THEN failed
            ELSE FromParent(ctx.to_render_paths[target_md_path.val],
                            Path_parent(ctx.to_render_paths[current_md_path.val]))
        Canonicalized(target_md_relative_path, current_md_relative_path) ==
            LookedUp(target_md_relative_path,
                     canonicalize(absolute_md_path(target_md_relative_path,
                                                   ctx.src_dir)),
                     canonicalize(absolute_md_path(current_md_relative_path,
                                                   ctx.src_dir)))
    IN  Canonicalized(original_md_path(link \o <<".", "md">>),
                      original_md_path(ctx.current_md_relative_path))

\* fix(dest, path, symlink_resolve_ctx): the fixed destination, and the log.
fix(dest, path, ctx, lg) ==
    LET Pushed(fixed_link, caps, r) ==
            [dest |-> fixed_link
                      \o (IF r.success THEN r.rel
                          ELSE caps.link \o <<".", "html">>)
                      \o (IF caps.anchor.some THEN caps.anchor.val ELSE <<>>),
             log |-> r.log]
        Adjusted(fixed_link, caps) ==
            IF ~caps.some THEN [dest |-> fixed_link \o dest, log |-> lg]
            ELSE Pushed(fixed_link, caps.val,
                        IF ctx.some
                        THEN resolve_symlink(caps.val.link, ctx.val, lg)
                        ELSE [success |-> FALSE, rel |-> <<>>, log |-> lg])
    IN  IF starts_with(dest, <<"#">>)
        THEN [dest |-> fix_fragment(dest, path), log |-> lg]
        ELSE IF SCHEME_LINK_is_match(dest) THEN [dest |-> dest, log |-> lg]
        ELSE Adjusted(base_prefix(path), MD_LINK_captures(dest))

\* HTML_LINK: (<(?:a|img) [^>]*?(?:src|href)=")([^"]+?)"
\* The attribute of the tag t whose value is the second group, 0 when the
\* tag has no match: the first whose name ends with src or href and whose
\* value stands in double quotes and is not empty.
HTML_LINK_captures(t) ==
    LET Matches(a) ==
            /\ ends_with(a.name, <<"src">>) \/ ends_with(a.name, <<"href">>)
            /\ a.quote = "\""
            /\ a.value # <<>>
        First(ks) == IF ks = {} THEN 0 ELSE CHOOSE k \in ks : \A j \in ks : k <= j
    IN  IF t.tag \in {"a", "img"}
        THEN First({k \in 1..Len(t.attrs) : Matches(t.attrs[k])})
        ELSE 0

RECURSIVE fix_html(_, _, _, _)
\* HTML_LINK.replace_all, the value of every match fixed.
fix_html(html, path, ctx, lg) ==
    LET Replaced(t, r, others) ==
            [html |-> <<t>> \o others.html, log |-> others.log]
        Fixed(t, k, r) ==
            Replaced([t EXCEPT !.attrs[k].value = r.dest], r,
                     fix_html(Tail(html), path, ctx, r.log))
        Matched(t, k) ==
            IF k = 0
            THEN Replaced(t, [dest |-> <<>>, log |-> lg], fix_html(Tail(html), path, ctx, lg))
            ELSE Fixed(t, k, fix(t.attrs[k].value, path, ctx, lg))
    IN  IF html = <<>> THEN [html |-> <<>>, log |-> lg]
        ELSE Matched(Head(html), HTML_LINK_captures(Head(html)))

\* adjust_links(event, path, symlink_resolve_ctx): the event, and the log.
adjust_links(event, path, ctx, lg) ==
    LET WithDest(r) == [event |-> [event EXCEPT !.dest = r.dest], log |-> r.log]
        WithHtml(r) == [event |-> [event EXCEPT !.html = r.html], log |-> r.log]
    IN  IF event.kind \in {"Link", "Image"}
        THEN WithDest(fix(event.dest, path, ctx, lg))
        ELSE IF event.kind = "Html"
        THEN WithHtml(fix_html(event.html, path, ctx, lg))
        ELSE [event |-> event, log |-> lg]

(***************************************************************************)
(* The state machine of the link resolver: one rendering of a document.    *)
(***************************************************************************)
\* render_markdown_with_path(text, curly_quotes, path, symlink_resolve_ctx),
\* before the first event.  Without a context the disk is not looked at.
LinksInit ==
    /\ print_path \in PrintPaths
    /\ symlink_resolve_ctx \in Contexts
    /\ disk \in (IF symlink_resolve_ctx.some THEN Disks ELSE {NoDisk})
    /\ event_count = 0
    /\ adjusted = None
    /\ BookIdle
    /\ AssetsIdle
    /\ OthersIdle

\* .map(|event| adjust_links(event, path, &symlink_resolve_ctx)), on the next
\* event of the document.
AdjustLinks ==
    /\ event_count < MaxEvents
    /\ \E event \in Events :
        \E r \in {adjust_links(event, print_path, symlink_resolve_ctx, log)} :
            /\ adjusted' = Some([event |-> event, fixed |-> r.event,
                                 logged |-> r.log # log])
            /\ log' = r.log
    /\ event_count' = event_count + 1
    /\ UNCHANGED <<print_path, symlink_resolve_ctx, disk>>
    /\ UNCHANGED bookVars
    /\ UNCHANGED <<static_files, hash_map, inputs, sha, collected, hash_results,
                   write_result, written>>
    /\ UNCHANGED otherVars

LinksNext == AdjustLinks

SpecLinks == LinksInit /\ [][LinksNext]_vars

(***************************************************************************)
(* The quote converter of the markdown renderer (utils/mod.rs).  A text is *)
(* the sequence of its characters; lsquo, rsquo, ldquo and rdquo stand for *)
(* the four curly quotes.                                                  *)
(***************************************************************************)
\* pulldown_cmark's events, as the converter tells them apart: a text, the
\* start and the end of a code block, and the others, such as a code span.
Text(text) == [kind |-> "Text", text |-> text]

Code(text) == [kind |-> "Code", text |-> text]

StartCodeBlock == [kind |-> "StartCodeBlock", text |-> <<>>]

EndCodeBlock == [kind |-> "EndCodeBlock", text |-> <<>>]

\* The documents the parser gives: a code block is closed before the next
\* one starts and before the document ends, and holds texts only.
Documents ==
    LET Texts == {<<"'", "a", "'">>, <<"a", " ", "\"", "a", "\"">>, <<"a", "'", "a">>}
        QuoteEvents ==
            { Text(t) : t \in Texts } \cup {Code(<<"'", "a", "'">>)}
            \cup {StartCodeBlock, EndCodeBlock}
        Inside(s, k) ==
            \E j \in 1..(k - 1) :
                s[j] = StartCodeBlock /\ \A i \in (j + 1)..(k - 1) : s[i] # EndCodeBlock
        WellFormed(s) ==
            /\ \A k \in 1..Len(s) :
                IF Inside(s, k) THEN s[k].kind \in {"Text", "EndCodeBlock"}
                ELSE s[k] # EndCodeBlock
            /\ ~Inside(s, Len(s) + 1)
    IN  UNION { { s \in [1..n -> QuoteEvents] : WellFormed(s) } : n \in 1..MaxStream }

\* convert_quotes_to_curly(original_text): a straight quote becomes an
\* opening quote at the start and after white space, a closing one elsewhere.
convert_quotes_to_curly(original_text) ==
    [i \in 1..Len(original_text) |->
        LET Converted(original_char, preceded_by_whitespace) ==
                IF original_char = "'"
                THEN (IF preceded_by_whitespace THEN "lsquo" ELSE "rsquo")
                ELSE IF original_char = "\""
                THEN (IF preceded_by_whitespace THEN "ldquo" ELSE "rdquo")
                ELSE original_char
        IN  Converted(original_text[i], i = 1 \/ original_text[i - 1] = " ")]

\* EventQuoteConverter::new(enabled)
EventQuoteConverter_new(enabled) == [enabled |-> enabled, convert_text |-> TRUE]

\* A convert that never looks at convert_text.
convert_in_code_blocks(self, event) ==
    IF ~self.enabled THEN [self |-> self, event |-> event]
    ELSE IF event.kind = "Text"
    THEN [self |-> self, event |-> Text(convert_quotes_to_curly(event.text))]
    ELSE [self |-> self, event |-> event]

\* converter.convert(event): the converter afterwards, and the event returned.
convert(self, event) ==
    IF ~self.enabled THEN [self |-> self, event |-> event]
    ELSE IF event.kind = "StartCodeBlock"
    THEN [self |-> [self EXCEPT !.convert_text = FALSE], event |-> event]
    ELSE IF event.kind = "EndCodeBlock"
    THEN [self |-> [self EXCEPT !.convert_text = TRUE], event |-> event]
    ELSE IF event.kind = "Text" /\ self.convert_text
    THEN [self |-> self, event |-> Text(convert_quotes_to_curly(event.text))]
    ELSE [self |-> self, event |-> event]

\* render_markdown_with_path, before the first event: the converter is new.
QuotesInit ==
    /\ converter \in { EventQuoteConverter_new(enabled) : enabled \in BOOLEAN }
    /\ parsed \in Documents
    /\ converted = <<>>
    /\ BookIdle
    /\ AssetsIdle
    /\ LinksIdle
    /\ HtmlIdle
    /\ InitIdle
    /\ WatchIdle
    /\ NavIdle

\* .map(|event| converter.convert(event)), on the next event of the document.
Convert ==
    /\ Len(converted) < Len(parsed)
    /\ \E r \in {convert(converter, parsed[Len(converted) + 1])} :
        /\ converter' = r.self
        /\ converted' = Append(converted, r.event)
    /\ UNCHANGED parsed
    /\ UNCHANGED <<bookVars, assetVars, linkVars>>
    /\ UNCHANGED <<htmlVars, initVars, watchVars, navVars>>

QuotesNext == Convert

SpecQuotes == QuotesInit /\ [][QuotesNext]_vars

(***************************************************************************)
(* The HTML renderer (renderer/html_handlebars/hbs_renderer.rs): the files *)
(* it writes for the chapters of a book, and print.html.                   *)
(***************************************************************************)
\* TocItem::Spacer
Spacer == [kind |-> "Spacer"]

\* TocItem::Numbered, Unnumbered or Unlisted, which the renderer treats
\* alike: a TocContent, the chapter and its sub_items (none: <<>>).  Of the
\* chapter the model keeps the content and the dest_path.
TocContent(content, dest_path, sub_items) ==
    [kind |-> "Chapter",
     chapter |-> [content |-> content, dest_path |-> dest_path],
     sub_items |-> sub_items]

RECURSIVE TocsOfSize(_)
\* The tocs of exactly n items at all depths: chapters with a content and a
\* dest_path, a chapter whose content is empty, one without content, a draft
\* (a chapter without dest_path), and spacers.
TocsOfSize(n) ==
    IF n = 0 THEN {<<>>}
    ELSE UNION { { <<item>> \o rest :
                     item \in (IF k = 1 THEN {Spacer} ELSE {})
                              \cup { TocContent(c[1], c[2], subs) :
                                       c \in {<<Some(<<"A">>), Some(<<"a", ".", "html">>)>>,
                                              <<Some(<<"B">>), Some(<<"b", "/", "b", ".", "html">>)>>,
                                              <<Some(<<>>), Some(<<"e", ".", "html">>)>>,
                                              <<None, Some(<<"n", ".", "html">>)>>,
                                              <<None, None>>},
                                       subs \in TocsOfSize(k - 1) },
                     rest \in TocsOfSize(n - k) } : k \in 1..n }

\* book.config.get_dest()
get_dest == <<"/", "book", "/">>

PrintHtml == <<"print", ".", "html">>

\* utils::render_markdown(&content): the HTML of a markdown text, which the
\* model does not compute.
render_markdown(content) == [html_of |-> content]

\* make_data(book, chapter, ...): fails for a chapter without dest_path; the
\* content of the page is the rendered content of the chapter, if it has one.
make_data(chapter) ==
    IF ~chapter.dest_path.some
    THEN Err(<<ErrMsg("make_data(), dest_path is None", <<>>)>>)
    ELSE Ok([path |-> chapter.dest_path.val,
             content |-> IF chapter.content.some
                         THEN Some(render_markdown(chapter.content.val))
                         ELSE None])

\* process_chapter(chapter, book, ...): the page is rendered and written at
\* the chapter's dest_path under the destination of the book.
process_chapter(chapter, out) ==
    LET Created(data, rendered_path) ==
            IF rendered_path \in unwritable
            THEN [res |-> Err(<<ErrMsg("create_file", rendered_path)>>), files |-> out]
            ELSE [res |-> Ok(<<>>),
                  files |-> Append(out, [path |-> rendered_path, page |-> data])]
        Rendered(data) ==
            IF ~data.ok THEN [res |-> data, files |-> out]
            ELSE Created(data.val, get_dest \o chapter.dest_path.val)
    IN  Rendered(make_data(chapter))

RECURSIVE process_items(_, _)
\* A process_items that does not descend into the sub_items of a chapter
\* without dest_path.
process_items_below_rendered(items, out) ==
    LET Rest(r) == IF ~r.res.ok THEN r ELSE process_items(Tail(items), r.files)
        Subs(item, r) ==
            IF ~r.res.ok THEN r
            ELSE IF item.chapter.dest_path.some
            THEN Rest(process_items(item.sub_items, r.files))
            ELSE Rest(r)
        Item(item) ==
            IF item.kind = "Spacer" THEN Rest([res |-> Ok(<<>>), files |-> out])
            ELSE Subs(item, IF item.chapter.dest_path.some
                            THEN process_chapter(item.chapter, out)
                            ELSE [res |-> Ok(<<>>), files |-> out])
    IN  IF items = <<>> THEN [res |-> Ok(<<>>), files |-> out]
        ELSE Item(Head(items))

\* process_items(items, book, ...): for every chapter with a dest_path a
\* process_chapter, then its sub_items; the first failure ends it.
process_items(items, out) ==
    LET Rest(r) == IF ~r.res.ok THEN r ELSE process_items(Tail(items), r.files)
        Subs(item, r) ==
            IF ~r.res.ok THEN r
            ELSE Rest(process_items(item.sub_items, r.files))
        Item(item) ==
            IF item.kind = "Spacer" THEN Rest([res |-> Ok(<<>>), files |-> out])
            ELSE Subs(item, IF item.chapter.dest_path.some
                            THEN process_chapter(item.chapter, out)
                            ELSE [res |-> Ok(<<>>), files |-> out])
    IN  IF items = <<>> THEN [res |-> Ok(<<>>), files |-> out]
        ELSE Item(Head(items))

RECURSIVE print_text(_)
\* A collection that takes the sub_items of a chapter before the chapter.
print_text_sub_items_first(items) ==
    IF items = <<>> THEN <<>>
    ELSE LET Of(item) ==
                 IF item.kind = "Spacer" THEN <<>>
                 ELSE print_text(item.sub_items)
                      \o (IF item.chapter.content.some
                          THEN item.chapter.content.val ELSE <<>>)
         IN  Of(Head(items)) \o print_text(Tail(items))

\* The `text` of collect_print_content_markdown(items, book): the content of
\* every chapter that has one, each followed by the text of its sub_items.
print_text(items) ==
    IF items = <<>> THEN <<>>
    ELSE LET Of(item) ==
                 IF item.kind = "Spacer" THEN <<>>
                 ELSE (IF item.chapter.content.some
                       THEN item.chapter.content.val ELSE <<>>)
                      \o print_text(item.sub_items)
         IN  Of(Head(items)) \o print_text(Tail(items))

\* collect_print_content_markdown(items, book)
collect_print_content_markdown(items) ==
    LET Collected(text) == IF Len(text) > 0 THEN Some(text) ELSE None
    IN  Collected(print_text(items))

\* HtmlHandlebars::render, from "Render a file for every entry in the book"
\* on, for a book that is not multi-language: the chapters, then print.html.
render(items) ==
    LET PrintPage(r, content) ==
            IF content.some
            THEN process_chapter([content |-> content, dest_path |-> Some(PrintHtml)],
                                 r.files)
            ELSE r
        Chapters(r) ==
            IF ~r.res.ok THEN r
            ELSE PrintPage(r, collect_print_content_markdown(items))
    IN  Chapters(process_items(items, <<>>))

\* A book and its destination, before it is rendered.
HtmlInit ==
    /\ toc \in UNION { TocsOfSize(n) : n \in 1..MaxToc }
    /\ unwritable \in {{}, {get_dest \o <<"a", ".", "html">>}, {get_dest \o PrintHtml}}
    /\ render_result = None
    /\ rendered_files = <<>>
    /\ BookIdle
    /\ AssetsIdle
    /\ LinksIdle
    /\ QuotesIdle
    /\ InitIdle
    /\ WatchIdle
    /\ NavIdle

\* renderer.render(&book_project)
Render ==
    /\ ~render_result.some
    /\ \E r \in {render(toc)} :
        /\ render_result' = Some(r.res)
        /\ rendered_files' = r.files
    /\ UNCHANGED <<toc, unwritable>>
    /\ UNCHANGED <<bookVars, assetVars, linkVars>>
    /\ UNCHANGED <<quoteVars, initVars, watchVars, navVars>>

HtmlNext == Render

SpecHtml == HtmlInit /\ [][HtmlNext]_vars

(***************************************************************************)
(* MDBook::init (book/mdbook.rs): the directories and files it creates.    *)
(* A path is the sequence of its components; at a path there is nothing,   *)
(* a file with its content, or a directory.  The content of SUMMARY.md is  *)
(* kept as the BookItems it is parsed to.                                  *)
(***************************************************************************)
Directory == [state |-> "dir", content |-> ""]

\* BookItem::Chapter(_, ch), BookItem::Affix(ch) and BookItem::Spacer; of the
\* chapter ch the name, the path and the sub_items.
BookItem_Chapter(name, ch_path, sub_items) ==
    [kind |-> "Chapter", name |-> name, path |-> ch_path, sub_items |-> sub_items]

BookItem_Affix(name, ch_path) ==
    [kind |-> "Affix", name |-> name, path |-> ch_path, sub_items |-> <<>>]

BookItem_Spacer == [kind |-> "Spacer", name |-> "", path |-> <<>>, sub_items |-> <<>>]

RECURSIVE BookItemsOfSize(_)
\* The contents of a SUMMARY.md of exactly n items at all depths: chapters
\* at a.md and sub/b.md, a chapter with an empty path, an affix and a spacer.
BookItemsOfSize(n) ==
    IF n = 0 THEN {<<>>}
    ELSE UNION { { <<item>> \o rest :
                     item \in (IF k = 1
                               THEN {BookItem_Spacer, BookItem_Affix("P", <<"a.md">>)}
                               ELSE {})
                              \cup { BookItem_Chapter(c[1], c[2], subs) :
                                       c \in {<<"A", <<"a.md">>>>,
                                              <<"B", <<"sub", "b.md">>>>,
                                              <<"D", <<>>>>},
                                       subs \in BookItemsOfSize(k - 1) },
                     rest \in BookItemsOfSize(n - k) } : k \in 1..n }

\* self.config.get_dest()
DestDir == <<"/", "book", "book">>

\* What init writes to a SUMMARY.md it creates.
DefaultSummary == <<BookItem_Chapter("Chapter 1", <<"chapter_1.md">>, <<>>)>>

\* The projects init may find: the destination and the source directory are
\* there or not, and in the source directory SUMMARY.md, chapter_1.md, a.md
\* and sub, each missing, a file or a directory, with b.md inside sub.
Projects ==
    LET Under(name) == SrcDir \o name
        SummaryFiles ==
            { TextFile(items) : items \in UNION { BookItemsOfSize(n) : n \in 1..MaxSummary } }
        Files == {MissingFile, TextFile("old")}
        InSrc ==
            { [p \in {Under(<<"SUMMARY.md">>), Under(<<"chapter_1.md">>), Under(<<"a.md">>),
                      Under(<<"sub">>), Under(<<"sub", "b.md">>)} |->
                    IF p = Under(<<"SUMMARY.md">>) THEN s
                    ELSE IF p = Under(<<"chapter_1.md">>) THEN c
                    ELSE IF p = Under(<<"a.md">>) THEN a
                    ELSE IF p = Under(<<"sub">>) THEN d[1]
                    ELSE d[2]] :
                s \in SummaryFiles \cup {MissingFile, Directory},
                c \in Files,
                a \in Files \cup {Directory},
                d \in {<<MissingFile, MissingFile>>, <<TextFile("old"), MissingFile>>,
                       <<Directory, MissingFile>>, <<Directory, TextFile("old")>>} }
        Empty == [p \in DOMAIN CHOOSE t \in InSrc : TRUE |-> MissingFile]
    IN  { (SrcDir :> Directory) @@ (DestDir :> d) @@ t :
            t \in InSrc, d \in {MissingFile, Directory} }
        \cup { (SrcDir :> MissingFile) @@ (DestDir :> d) @@ Empty :
                 d \in {MissingFile, Directory} }

\* Path::exists
exists(t, p) == t[p].state # "missing"

\* parse::construct_bookitems(&src.join("SUMMARY.md"))
construct_bookitems(file) ==
    IF file.state = "text" THEN Ok(file.content)
    ELSE Err(<<ErrMsg("construct_bookitems", <<"SUMMARY.md">>)>>)

RECURSIVE MDBook_iter(_)
\* self.iter(), as the sequence of the items it yields: depth-first, an item
\* before its sub_items.
MDBook_iter(content) ==
    IF content = <<>> THEN <<>>
    ELSE <<Head(content)>> \o MDBook_iter(Head(content).sub_items)
         \o MDBook_iter(Tail(content))

RECURSIVE create_dir_all(_, _)
\* fs::create_dir_all(p): the missing directories of p are made, from the
\* outermost on; it fails when a file stands where a directory is needed.
create_dir_all(t, p) ==
    IF p \notin DOMAIN t \/ t[p].state = "dir" THEN [res |-> Ok(<<>>), tree |-> t]
    ELSE IF t[p].state = "text"
    THEN [res |-> Err(<<ErrMsg("create_dir_all", p)>>), tree |-> t]
    ELSE LET Made(r) ==
                 IF ~r.res.ok THEN r
                 ELSE [res |-> Ok(<<>>), tree |-> [r.tree EXCEPT ![p] = Directory]]
         IN  Made(create_dir_all(t, SubSeq(p, 1, Len(p) - 1)))

RECURSIVE create_missing(_, _)
\* for item in self.iter(): for a chapter or an affix with a path at which
\* nothing exists, the parent directories and a file "# <name>" are created.
create_missing(t, items) ==
    LET Stub(item, r) ==
            IF ~r.res.ok THEN r
            ELSE create_missing([r.tree EXCEPT ![SrcDir \o item.path] =
                                     TextFile(<<"# ", item.name>>)],
                                Tail(items))
        Item(item) ==
            IF item.kind = "Spacer" \/ item.path = <<>> \/ exists(t, SrcDir \o item.path)
            THEN create_missing(t, Tail(items))
            ELSE Stub(item, create_dir_all(t, SubSeq(SrcDir \o item.path, 1,
                                                     Len(SrcDir \o item.path) - 1)))
    IN  IF items = <<>> THEN [res |-> Ok(<<>>), tree |-> t]
        ELSE Item(Head(items))

\* MDBook::init(&mut self): the result, and the project afterwards.
MDBook_init(t) ==
    LET Created(t1, p) == IF exists(t1, p) THEN t1 ELSE [t1 EXCEPT ![p] = Directory]
        Written(t1, p) ==
            IF exists(t1, p) THEN t1 ELSE [t1 EXCEPT ![p] = TextFile(DefaultSummary)]
        Parsed(t1, content) ==
            IF ~content.ok THEN [res |-> content, tree |-> t1]
            ELSE create_missing(t1, MDBook_iter(content.val))
        Summary(t1) == Parsed(t1, construct_bookitems(t1[SrcDir \o <<"SUMMARY.md">>]))
    IN  Summary(Written(Created(Created(t, DestDir), SrcDir), SrcDir \o <<"SUMMARY.md">>))

\* MDBook::new(root), in a project directory.
InitInit ==
    /\ tree \in Projects
    /\ tree_before = tree
    /\ init_result = None
    /\ BookIdle
    /\ AssetsIdle
    /\ LinksIdle
    /\ QuotesIdle
    /\ HtmlIdle
    /\ WatchIdle
    /\ NavIdle

\* book.init()
InitBook ==
    /\ ~init_result.some
    /\ \E r \in {MDBook_init(tree)} :
        /\ init_result' = Some(r.res)
        /\ tree' = r.tree
    /\ UNCHANGED tree_before
    /\ UNCHANGED <<bookVars, assetVars, linkVars>>
    /\ UNCHANGED <<quoteVars, htmlVars, watchVars, navVars>>

InitNext == InitBook

SpecInit == InitInit /\ [][InitNext]_vars

(***************************************************************************)
(* The watch loop (cmd/watch.rs): the watcher sends events to a channel,   *)
(* the loop of trigger_on_change receives them in batches and calls the    *)
(* closure of execute, which rebuilds the book.                            *)
(***************************************************************************)
\* notify::DebouncedEvent: Create, Write, Remove and Rename carry the path the
\* loop looks at (of Rename the second); Chmod stands for the other events.
DebouncedEvent(kind, event_path) == [kind |-> kind, path |-> event_path]

DebouncedEvents ==
    { DebouncedEvent("Write", <<"src", "a.md">>),
      DebouncedEvent("Create", <<"src", "tmp">>),
      DebouncedEvent("Rename", <<"src", "b.md">>),
      DebouncedEvent("Chmod", <<"src", "a.md">>) }

RECURSIVE collect_paths(_, _)
\* A filter_map without the match on the kind of the event.
collect_paths_of_every_kind(all_events, ignore) ==
    IF all_events = <<>> THEN <<>>
    ELSE (IF Head(all_events).path \notin ignore
          THEN <<Head(all_events).path>> ELSE <<>>)
         \o collect_paths(Tail(all_events), ignore)

\* all_events.filter_map(...).collect(): the paths of the Create, Write,
\* Remove and Rename events that the gitignore does not match.
collect_paths(all_events, ignore) ==
    IF all_events = <<>> THEN <<>>
    ELSE (IF /\ Head(all_events).kind \in {"Create", "Write", "Remove", "Rename"}
             /\ Head(all_events).path \notin ignore
          THEN <<Head(all_events).path>> ELSE <<>>)
         \o collect_paths(Tail(all_events), ignore)

\* The closure of execute, called with `paths`: it logs them, rebuilds the
\* book, and logs the failure when MDBook::load or build fails.
rebuild(paths, built, lg) ==
    LET Info(lg1) ==
            IF built THEN lg1
            ELSE Append(lg1, LogRecord("error", "Unable to build the book", paths))
    IN  Info(Append(lg, LogRecord("info", "Files changed", paths)))

\* trigger_on_change, at "Listening for changes...": the gitignore is the
\* one of the book (here: src/tmp is ignored) or empty.
WatchInit ==
    /\ gitignore \in {{}, {<<"src", "tmp">>}}
    /\ rx = <<>>
    /\ first_event = None
    /\ sent = <<>>
    /\ batches = <<>>
    /\ rebuilds = <<>>
    /\ BookIdle
    /\ AssetsIdle
    /\ LinksIdle
    /\ QuotesIdle
    /\ HtmlIdle
    /\ InitIdle
    /\ NavIdle

\* The watcher's thread sends an event.
Notify ==
    /\ Len(sent) < MaxSent
    /\ \E event \in DebouncedEvents :
        /\ rx' = Append(rx, event)
        /\ sent' = Append(sent, event)
    /\ UNCHANGED <<gitignore, first_event, batches, rebuilds>>
    /\ UNCHANGED <<bookVars, assetVars, linkVars>>
    /\ UNCHANGED <<quoteVars, htmlVars, initVars, navVars>>

\* let first_event = rx.recv().unwrap(): blocks until there is an event.
Recv ==
    /\ ~first_event.some
    /\ rx # <<>>
    /\ first_event' = Some(Head(rx))
    /\ rx' = Tail(rx)
    /\ UNCHANGED <<gitignore, sent, batches, rebuilds>>
    /\ UNCHANGED <<bookVars, assetVars, linkVars>>
    /\ UNCHANGED <<quoteVars, htmlVars, initVars, navVars>>

\* After the sleep: rx.try_iter() takes what has arrived, the paths are
\* collected and, unless there is none, the closure is called; the build in
\* it succeeds or fails.
Batch ==
    /\ first_event.some
    /\ \E all_events \in {<<first_event.val>> \o rx} :
        \E paths \in {collect_paths(all_events, gitignore)} :
            /\ batches' = Append(batches, all_events)
            /\ IF paths = <<>>
               THEN UNCHANGED <<rebuilds, log>>
               ELSE \E built \in BOOLEAN :
                        /\ rebuilds' = Append(rebuilds,
                               [paths |-> paths, batch |-> Len(batches) + 1,
                                built |-> built])
                        /\ log' = rebuild(paths, built, log)
    /\ rx' = <<>>
    /\ first_event' = None
    /\ UNCHANGED <<gitignore, sent>>
    /\ UNCHANGED <<bookVars, linkVars>>
    /\ UNCHANGED <<static_files, hash_map, inputs, sha, collected, hash_results,
                   write_result, written>>
    /\ UNCHANGED <<quoteVars, htmlVars, initVars, navVars>>

WatchNext ==
    \/ Notify
    \/ Recv
    \/ Batch

SpecWatch == WatchInit /\ [][WatchNext]_vars

\* The loop is a thread of its own that never stops: a recv that can return
\* returns, and the sleep ends.
SpecWatchLive == SpecWatch /\ WF_vars(Recv) /\ WF_vars(Batch)

(***************************************************************************)
(* The navigation helpers (helpers/navigation.rs).  A path and a JSON text *)
(* are sequences of characters and words; "\"" is the double quote and     *)
(* "\\" the backslash.                                                     *)
(***************************************************************************)
\* An entry of "chapters", a BTreeMap<String, String>: its "name" and its
\* "path", each there or not.
ChapterEntry(name, entry_path) == [name |-> name, path |-> entry_path]

\* The entries of a chapter list: chapters, one of them with a backslash in
\* its path, a draft (its path is empty) and a spacer (it has no path).
ChapterEntries ==
    { ChapterEntry(Some("A"), Some(<<"a", ".", "md">>)),
      ChapterEntry(Some("B"), Some(<<"ch", "/", "b", ".", "md">>)),
      ChapterEntry(Some("W"), Some(<<"ch", "\\", "w", ".", "md">>)),
      ChapterEntry(Some("D"), Some(<<>>)),
      ChapterEntry(None, None) }

RECURSIVE Json_to_string(_)
\* The characters of a JSON string between its quotes: a double quote and
\* a backslash are escaped with a backslash.
Json_to_string(str) ==
    IF str = <<>> THEN <<>>
    ELSE (IF Head(str) \in {"\"", "\\"} THEN <<"\\", Head(str)>> ELSE <<Head(str)>>)
         \o Json_to_string(Tail(str))

\* c.navigate(rc.get_path(), "path").to_string().replace("\"", "")
navigate_path(page_path) ==
    LET IsNoQuote(ch) == ch # "\""
    IN  SelectSeq(<<"\"">> \o Json_to_string(page_path) \o <<"\"">>, IsNoQuote)

\* Path::new(p).with_extension("html")
with_extension_html(p) ==
    LET Replaced(dots) ==
            IF dots = {} THEN p \o <<".", "html">>
            ELSE SubSeq(p, 1, CHOOSE k \in dots : \A j \in dots : j <= k) \o <<"html">>
    IN  Replaced({k \in 2..Len(p) :
                    p[k] = "." /\ p[k - 1] # "/" /\ \A j \in k..Len(p) : p[j] # "/"})

\* What a helper hands to its template: the title and the link of an entry.
chapter_context(item) ==
    IF ~item.name.some
    THEN Err(<<ErrMsg("No title found for chapter in JSON data", <<>>)>>)
    ELSE Ok(Some([title |-> item.name.val, link |-> with_extension_html(item.path.val)]))

RECURSIVE previous(_, _, _)
\* The loop of `previous`, from the entries `decoded` on, `prev` being the
\* last entry with a path seen: Ok(None) when nothing is rendered.
previous(decoded, current, prev) ==
    IF decoded = <<>> THEN Ok(None)
    ELSE LET Item(item) ==
                 IF item.path.some /\ item.path.val # <<>>
                 THEN IF item.path.val = current
                      THEN (IF prev.some THEN chapter_context(prev.val) ELSE Ok(None))
                      ELSE previous(Tail(decoded), current, Some(item))
                 ELSE previous(Tail(decoded), current, prev)
         IN  Item(Head(decoded))

RECURSIVE next(_, _, _)
\* The loop of `next`.
next(decoded, current, prev) ==
    IF decoded = <<>> THEN Ok(None)
    ELSE LET Item(item) ==
                 IF item.path.some /\ item.path.val # <<>>
                 THEN IF prev.some /\ prev.val.path.val = current
                      THEN chapter_context(item)
                      ELSE next(Tail(decoded), current, Some(item))
                 ELSE next(Tail(decoded), current, prev)
         IN  Item(Head(decoded))

\* The data of a page: the chapter list and the path of the page, which is
\* that of a chapter of the list or of a page that is not in it.
NavInit ==
    /\ nav_chapters \in UNION { [1..n -> ChapterEntries] : n \in 1..MaxChapters }
    /\ current_path \in { e.path.val : e \in { c \in ChapterEntries : c.path.some } }
                        \cup {<<"print", ".", "md">>}
    /\ previous_out = None
    /\ next_out = None
    /\ BookIdle
    /\ AssetsIdle
    /\ LinksIdle
    /\ QuotesIdle
    /\ HtmlIdle
    /\ InitIdle
    /\ WatchIdle

\* {{#previous}} ... {{/previous}}
RenderPrevious ==
    /\ ~previous_out.some
    /\ previous_out' = Some(previous(nav_chapters, navigate_path(current_path), None))
    /\ UNCHANGED <<nav_chapters, current_path, next_out>>
    /\ UNCHANGED <<bookVars, assetVars, linkVars>>
    /\ UNCHANGED <<quoteVars, htmlVars, initVars, watchVars>>

\* {{#next}} ... {{/next}}
RenderNext ==
    /\ ~next_out.some
    /\ next_out' = Some(next(nav_chapters, navigate_path(current_path), None))
    /\ UNCHANGED <<nav_chapters, current_path, previous_out>>
    /\ UNCHANGED <<bookVars, assetVars, linkVars>>
    /\ UNCHANGED <<quoteVars, htmlVars, initVars, watchVars>>

NavNext ==
    \/ RenderPrevious
    \/ RenderNext

SpecNav == NavInit /\ [][NavNext]_vars

(***************************************************************************)
(* What the claims about the document tree are stated with.                *)
(***************************************************************************)
RECURSIVE PreOrderFrom(_, _, _)
\* The pre-order flattening of items[k..], as references under `prefix`.
PreOrderFrom(items, prefix, k) ==
    IF k > Len(items) THEN <<>>
    ELSE <<prefix \o <<k>>>>
         \o (IF items[k].kind = "Chapter"
             THEN PreOrderFrom(items[k].sub_items, prefix \o <<k>>, 1)
             ELSE <<>>)
         \o PreOrderFrom(items, prefix, k + 1)

PreOrder(book) == PreOrderFrom(book.sections, <<>>, 1)

RECURSIVE CountItems(_)
\* The number of items, chapters and separators, at all depths.
CountItems(items) ==
    IF items = <<>> THEN 0
    ELSE 1 + (IF Head(items).kind = "Chapter"
              THEN CountItems(Head(items).sub_items) ELSE 0)
           + CountItems(Tail(items))

RECURSIVE AllRefs(_, _)
\* The references to every item under `prefix`.
AllRefs(items, prefix) ==
    UNION { {prefix \o <<k>>}
            \cup (IF items[k].kind = "Chapter"
                  THEN AllRefs(items[k].sub_items, prefix \o <<k>>)
                  ELSE {}) : k \in 1..Len(items) }

\* The items an iterator has yielded so far, in order.
Yielded(i) ==
    LET some == SelectSeq(iters[i].returned, LAMBDA r : r.some)
    IN  [k \in 1..Len(some) |-> some[k].val]

Exhausted(i) == iters[i].live /\ NoneCount(iters[i].returned) > 0

IsPrefix(s, t) == Len(s) <= Len(t) /\ s = SubSeq(t, 1, Len(s))

SummaryItems(s) == s.prefix_chapters \o s.numbered_chapters \o s.suffix_chapters

Flat(items) ==
    \A k \in 1..Len(items) :
        items[k].kind = "Link" => items[k].nested_items = <<>>

\* The file a link names, as the loader resolves it.
FileOf(link) ==
    LET p == IF is_absolute(link.location) THEN link.location
             ELSE SrcDir \o link.location
    IN  IF p \in DOMAIN fs THEN fs[p] ELSE MissingFile

\* A book item is the image of a summary item, its descendants left aside.
SameEntry(item, bi) ==
    IF item.kind = "Separator" THEN bi.kind = "Separator"
    ELSE /\ bi.kind = "Chapter"
         /\ bi.name = item.name
         /\ bi.number = item.number
         /\ bi.content = FileOf(item).content

RECURSIVE Mirrors(_, _)
\* A sequence of book items is the image of a sequence of summary items, at
\* every depth.
Mirrors(items, bis) ==
    /\ Len(bis) = Len(items)
    /\ \A k \in 1..Len(items) :
        /\ SameEntry(items[k], bis[k])
        /\ items[k].kind = "Link" =>
            /\ bis[k].number.some = items[k].number.some
            /\ Mirrors(items[k].nested_items, bis[k].sub_items)

RECURSIVE LinksOf(_)
\* The links of a sequence of summary items in pre-order.
LinksOf(items) ==
    IF items = <<>> THEN <<>>
    ELSE (IF Head(items).kind = "Link"
          THEN <<Head(items)>> \o LinksOf(Head(items).nested_items)
          ELSE <<>>)
         \o LinksOf(Tail(items))

CannotOpen(link) == FileOf(link).state = "missing"

CannotRead(link) == FileOf(link).state = "binary"

ChapterNotFound(link) == ErrMsg("Chapter file not found", link.location)

(***************************************************************************)
(* C1: the items an iterator yields are the pre-order flattening of the    *)
(* book: at every moment the items yielded so far are its first items, in  *)
(* order, and an iterator that has returned None has yielded all of it.    *)
(***************************************************************************)
C1_PreOrder ==
    \A i \in IterIds :
        iters[i].live =>
            /\ IsPrefix(Yielded(i), PreOrder(TheBook))
            /\ Exhausted(i) => Yielded(i) = PreOrder(TheBook)

\* An exhausted iterator over a chapter with a sub-item that has a next sibling.
C1_Witness ==
    /\ Loaded
    /\ \E i \in IterIds : Exhausted(i)
    /\ Len(TheBook.sections) >= 2
    /\ TheBook.sections[1].kind = "Chapter"
    /\ TheBook.sections[1].sub_items # <<>>

(***************************************************************************)
(* C2: with N the number of items of the book, the k-th call of next()     *)
(* returns an item exactly when k <= N and None on every later call; the   *)
(* items returned are items of the book and no item is returned twice.     *)
(***************************************************************************)
C2_EachOnceThenNone ==
    \A i \in IterIds :
        iters[i].live =>
            LET ret == iters[i].returned
                N == CountItems(TheBook.sections)
            IN  /\ \A k \in 1..Len(ret) : ret[k].some <=> k <= N
                /\ \A k \in 1..Len(ret) :
                    ret[k].some => ret[k].val \in AllRefs(TheBook.sections, <<>>)
                /\ \A k, l \in 1..Len(ret) :
                    ret[k].some /\ ret[l].some /\ k # l => ret[k].val # ret[l].val

\* An iterator over a nested book of three items that returned None twice.
C2_Witness ==
    /\ Loaded
    /\ CountItems(TheBook.sections) = 3
    /\ Len(TheBook.sections) < 3
    /\ \E i \in IterIds : NoneCount(iters[i].returned) = 2

(***************************************************************************)
(* C3: iterators over the same book retrace the same sequence, whenever    *)
(* they are taken: of two live iterators, what one has returned so far is  *)
(* the start of what the other has returned; and once the book is loaded,  *)
(* no step (iter or next) changes it.                                      *)
(***************************************************************************)
C3_Restartable ==
    /\ [](\A i, j \in IterIds :
            iters[i].live /\ iters[j].live =>
                \/ IsPrefix(iters[i].returned, iters[j].returned)
                \/ IsPrefix(iters[j].returned, iters[i].returned))
    /\ [][result.some => result' = result]_vars

\* An iterator taken while the other one was partly consumed has run to its
\* end over a nested book, the other one still being partly consumed.
C3_Witness ==
    /\ Loaded
    /\ CountItems(TheBook.sections) > Len(TheBook.sections)
    /\ \E i, j \in IterIds :
        /\ i # j
        /\ PartlyConsumed(i)
        /\ Exhausted(j)
        /\ iters[j].taken_during

(***************************************************************************)
(* C4: the sections of a loaded book are the images of the prefix, then    *)
(* the numbered, then the suffix items of the summary, in order; when the  *)
(* summary has no nested items an iterator run to its end has yielded      *)
(* exactly these, in that order.                                           *)
(***************************************************************************)
C4_SectionOrder ==
    Loaded =>
        LET items == SummaryItems(summary)
            secs == TheBook.sections
        IN  /\ Len(secs) = Len(items)
            /\ \A k \in 1..Len(items) : SameEntry(items[k], secs[k])
            /\ Flat(items) =>
                \A i \in IterIds :
                    Exhausted(i) =>
                        /\ Len(Yielded(i)) = Len(items)
                        /\ \A k \in 1..Len(items) :
                            SameEntry(items[k], Deref(secs, Yielded(i)[k]))

\* A flat summary with a different item in each of its three sections, loaded
\* and iterated to the end.
C4_Witness ==
    /\ Loaded
    /\ Flat(SummaryItems(summary))
    /\ Len(summary.prefix_chapters) = 1
    /\ Len(summary.numbered_chapters) = 1
    /\ Len(summary.suffix_chapters) = 1
    /\ summary.prefix_chapters # summary.numbered_chapters
    /\ summary.numbered_chapters # summary.suffix_chapters
    /\ summary.prefix_chapters # summary.suffix_chapters
    /\ \E i \in IterIds : Exhausted(i)

(***************************************************************************)
(* C5: a successful load yields a tree of the shape of the summary: a      *)
(* separator for a separator, and for a link a chapter with the link's     *)
(* name, its number (None exactly when the link has none), the content of  *)
(* the linked file, and as sub_items the images of the nested items, in    *)
(* order, at every depth.                                                  *)
(***************************************************************************)
C5_SameShape ==
    Loaded => Mirrors(SummaryItems(summary), TheBook.sections)

\* A loaded unnumbered chapter whose sub-items are a numbered chapter and a
\* separator.
C5_Witness ==
    /\ Loaded
    /\ Len(TheBook.sections) = 1
    /\ TheBook.sections[1].kind = "Chapter"
    /\ ~TheBook.sections[1].number.some
    /\ Len(TheBook.sections[1].sub_items) = 2
    /\ TheBook.sections[1].sub_items[1].kind = "Chapter"
    /\ TheBook.sections[1].sub_items[1].number.some
    /\ TheBook.sections[1].sub_items[2].kind = "Separator"

(***************************************************************************)
(* C6 as stated: for every link whose file cannot be opened, the load      *)
(* fails with the chapter-not-found error of that link's location and      *)
(* returns no book.                                                        *)
(***************************************************************************)
C6_Original ==
    result.some =>
        LET links == LinksOf(SummaryItems(summary))
        IN  \A k \in 1..Len(links) :
                CannotOpen(links[k]) =>
                    /\ ~result.val.ok
                    /\ result.val.val = <<>>
                    /\ \E e \in 1..Len(result.val.err) :
                        result.val.err[e] = ChapterNotFound(links[k])

(***************************************************************************)
(* C6 as amended: when a link's file cannot be opened the load fails and   *)
(* returns no book; the error is that of the first link in pre-order whose *)
(* file cannot be opened or cannot be read: the chapter-not-found error    *)
(* with that link's location when it cannot be opened, the read error      *)
(* when it opens and is not valid UTF-8.                                   *)
(***************************************************************************)
C6_FirstFailure ==
    result.some =>
        LET links == LinksOf(SummaryItems(summary))
            bad == {k \in 1..Len(links) :
                        CannotOpen(links[k]) \/ CannotRead(links[k])}
        IN  (\E k \in bad : CannotOpen(links[k])) =>
                LET first == CHOOSE k \in bad : \A l \in bad : k <= l
                IN  /\ ~result.val.ok
                    /\ result.val.val = <<>>
                    /\ result.val.err[1].msg = "Couldn't load chapters from disk"
                    /\ IF CannotOpen(links[first])
                       THEN result.val.err[2] = ChapterNotFound(links[first])
                       ELSE \A e \in 1..Len(result.val.err) :
                                result.val.err[e].msg # "Chapter file not found"

\* A failed load of a summary whose first link loads and whose missing file
\* is named by a link nested in it.
C6_Witness ==
    /\ result.some
    /\ ~result.val.ok
    /\ LET links == LinksOf(SummaryItems(summary))
       IN  /\ Len(links) >= 2
           /\ ~CannotOpen(links[1])
           /\ ~CannotRead(links[1])
           /\ SummaryItems(summary)[1].kind = "Link"
           /\ SummaryItems(summary)[1].nested_items # <<>>
           /\ CannotOpen(links[2])
           /\ result.val.err[2] = ChapterNotFound(links[2])

(***************************************************************************)
(* What the claims about the asset pipeline are stated with.               *)
(***************************************************************************)
\* hash_files was called once, and returned Ok.
HashedOnce == hash_results = <<Ok(<<>>)>>

WriteOk == write_result.some /\ write_result.val.ok

Assets == 1..Len(static_files)

Renamed(k) == static_files[k].filename # collected[k]

\* The bytes hash_files and write_files read for the k-th asset.
SourceBytes(k) ==
    IF static_files[k].kind = "Builtin"
    THEN static_files[k].data
    ELSE inputs[static_files[k].input_location].content

\* The base and the extension of a logical name: the text before its first
\* '.' and the text after it.
HasDot(name) == \E k \in 1..Len(name) : name[k] = "."

FirstDot(name) ==
    CHOOSE k \in 1..Len(name) :
        name[k] = "." /\ \A l \in 1..(k - 1) : name[l] # "."

Base(name) == SubSeq(name, 1, FirstDot(name) - 1)

Extension(name) == SubSeq(name, FirstDot(name) + 1, Len(name))

\* <base>-<digest>.<extension>
Fingerprinted(name, digest) ==
    Base(name) \o <<"-">> \o <<digest>> \o <<".">> \o Extension(name)

\* The predicate of the specification: a non-empty base and a non-empty
\* extension that is not excluded.
Fingerprintable(name) ==
    /\ HasDot(name)
    /\ Base(name) # <<>>
    /\ Extension(name) # <<>>
    /\ Extension(name) # <<"txt">>
    /\ ~starts_with(name, <<"FontAwesome", "/", "fonts", "/">>)

\* The number of directories between the destination root and a file.
Depth(filename) == Cardinality({k \in 1..Len(filename) : filename[k] = "/"})

RECURSIVE UpToRoot(_)
UpToRoot(n) == IF n = 0 THEN <<>> ELSE <<"..", "/">> \o UpToRoot(n - 1)

\* The c-th chunk of the k-th asset is a directive, written as a text asset.
DirectiveAt(k, c) ==
    /\ k \in 1..Len(written)
    /\ is_text(written[k].filename)
    /\ c \in 1..Len(SourceBytes(k))
    /\ SourceBytes(k)[c].kind = "directive"

(***************************************************************************)
(* C7 as stated: after hash_files an asset is renamed to                   *)
(* <base>-<digest>.<extension>, and the name map takes its original name   *)
(* to the new name of an asset of that original name, exactly when its     *)
(* logical name has a non-empty base and a non-empty extension that is     *)
(* neither txt nor under FontAwesome/fonts/; every other asset, built-in   *)
(* or additional, keeps its name and is not a key of the map.              *)
(***************************************************************************)
C7_Claim ==
    HashedOnce =>
        \A k \in Assets :
            IF Fingerprintable(collected[k])
            THEN /\ \E d \in Digests :
                        static_files[k].filename = Fingerprinted(collected[k], d)
                 /\ collected[k] \in DOMAIN hash_map
                 /\ \E j \in Assets :
                        /\ collected[j] = collected[k]
                        /\ hash_map[collected[k]] = static_files[j].filename
            ELSE /\ static_files[k].filename = collected[k]
                 /\ collected[k] \notin DOMAIN hash_map

\* C7 for the built-in assets alone, where hash_files applies the exclusions.
C7_BuiltinsOnly ==
    HashedOnce /\ (\A k \in Assets : static_files[k].kind = "Builtin") =>
        \A k \in Assets :
            IF Fingerprintable(collected[k])
            THEN /\ \E d \in Digests :
                        static_files[k].filename = Fingerprinted(collected[k], d)
                 /\ collected[k] \in DOMAIN hash_map
            ELSE /\ static_files[k].filename = collected[k]
                 /\ collected[k] \notin DOMAIN hash_map

(***************************************************************************)
(* C8 as stated: of two fingerprinted assets, those with the same source   *)
(* bytes have the same digest, and the same file name when their logical   *)
(* names are equal; those with different source bytes have different       *)
(* digests, hence different file names.                                    *)
(***************************************************************************)
C8_Original ==
    HashedOnce =>
        \A i, j \in {k \in Assets : Renamed(k)} :
            /\ SourceBytes(i) = SourceBytes(j) /\ collected[i] = collected[j]
                => static_files[i].filename = static_files[j].filename
            /\ SourceBytes(i) # SourceBytes(j) /\ collected[i] = collected[j]
                => static_files[i].filename # static_files[j].filename

(***************************************************************************)
(* C8 as amended: the file name of a fingerprinted asset is made of its    *)
(* own logical name and of the 4-byte digest of its own source bytes,      *)
(* whatever its provenance, its place in the catalog and the other assets; *)
(* so two assets of one logical name get the same file name exactly when   *)
(* the digests of their source bytes are equal, which equal bytes imply.   *)
(***************************************************************************)
C8_ContentAddressed ==
    HashedOnce =>
        /\ \A k \in Assets :
            Renamed(k) =>
                static_files[k].filename =
                    Fingerprinted(collected[k], sha[SourceBytes(k)])
        /\ \A i, j \in {k \in Assets : Renamed(k)} :
            collected[i] = collected[j] =>
                /\ SourceBytes(i) = SourceBytes(j)
                    => static_files[i].filename = static_files[j].filename
                /\ static_files[i].filename = static_files[j].filename
                    <=> sha[SourceBytes(i)] = sha[SourceBytes(j)]

\* A built-in and an additional asset of one logical name and the same non-empty
\* bytes, both fingerprinted, to the same file name.
C8_Witness ==
    /\ HashedOnce
    /\ \E i, j \in Assets :
        /\ static_files[i].kind = "Builtin"
        /\ static_files[j].kind = "Additional"
        /\ Renamed(i)
        /\ Renamed(j)
        /\ SourceBytes(i) = SourceBytes(j)
        /\ SourceBytes(i) # <<>>
        /\ static_files[i].filename = static_files[j].filename

(***************************************************************************)
(* C9: in every text asset that write_files writes, a directive whose name *)
(* is a key of the name map is replaced by one ../ for each directory of   *)
(* the asset's own final name, followed by the name the map gives; after   *)
(* one hash_files that is the name under which an asset of that logical    *)
(* name is written.                                                        *)
(***************************************************************************)
C9_DirectiveResolved ==
    write_result.some =>
        \A k \in 1..Len(written) :
            \A c \in 1..Len(SourceBytes(k)) :
                DirectiveAt(k, c) /\ SourceBytes(k)[c].v \in DOMAIN hash_map =>
                    LET name == SourceBytes(k)[c].v
                    IN  /\ Len(written[k].data) = Len(SourceBytes(k))
                        /\ written[k].data[c] =
                            Bytes(UpToRoot(Depth(written[k].filename))
                                  \o hash_map[name])
                        /\ HashedOnce /\ WriteOk =>
                            \E j \in 1..Len(written) :
                                /\ collected[j] = name
                                /\ written[j].filename = hash_map[name]

\* A text asset one directory deep that names book.js, written after book.js
\* was fingerprinted: it holds ../book-<digest>.js.
C9_Witness ==
    /\ HashedOnce
    /\ WriteOk
    /\ \E k \in 1..Len(written) :
        /\ DirectiveAt(k, 1)
        /\ Depth(written[k].filename) = 1
        /\ SourceBytes(k)[1].v = BookJs
        /\ BookJs \in DOMAIN hash_map
        /\ \E d \in Digests :
            written[k].data[1] = Bytes(<<"..", "/", "book", "-", d, ".", "js">>)

(***************************************************************************)
(* C10 as stated: a directive whose name is not a key of the name map does *)
(* not fail write_files; it is replaced by the path to the destination     *)
(* root followed by the name as written, and a warning that names the      *)
(* unknown resource is logged.                                             *)
(***************************************************************************)
C10_Claim ==
    write_result.some =>
        \A k \in 1..Len(written) :
            \A c \in 1..Len(SourceBytes(k)) :
                DirectiveAt(k, c) /\ SourceBytes(k)[c].v \notin DOMAIN hash_map =>
                    /\ written[k].data[c] =
                        Bytes(UpToRoot(Depth(written[k].filename))
                              \o SourceBytes(k)[c].v)
                    /\ \E l \in 1..Len(log) :
                        log[l].level = "warn" /\ log[l].arg = SourceBytes(k)[c].v

\* C10 without the warning: the directive is replaced by the path to the root
\* and the name as written, and write_files fails only for a missing input.
C10_FallbackOnly ==
    write_result.some =>
        /\ \A k \in 1..Len(written) :
            \A c \in 1..Len(SourceBytes(k)) :
                DirectiveAt(k, c) /\ SourceBytes(k)[c].v \notin DOMAIN hash_map =>
                    written[k].data[c] =
                        Bytes(UpToRoot(Depth(written[k].filename))
                              \o SourceBytes(k)[c].v)
        /\ ~write_result.val.ok =>
            \E k \in Assets :
                /\ static_files[k].kind = "Additional"
                /\ inputs[static_files[k].input_location].state = "missing"

(***************************************************************************)
(* What the claims about writing the catalog are stated with.              *)
(***************************************************************************)
\* No two assets of the catalog were collected under one logical name.
DistinctNames ==
    \A j, k \in 1..Len(collected) : j # k => collected[j] # collected[k]

\* The output paths written so far, each written once.
WrittenOnce ==
    \A j, k \in 1..Len(written) :
        j # k => written[j].filename # written[k].filename

\* Every asset has one output file, at its final name, in catalog order.
OneFileEach ==
    /\ Len(written) = Len(static_files)
    /\ \A k \in Assets : written[k].filename = static_files[k].filename

\* The assets that are not text assets are written with their source bytes.
CopiedVerbatim ==
    \A k \in 1..Len(written) :
        ~is_text(written[k].filename) => written[k].data = SourceBytes(k)

(***************************************************************************)
(* C11 as stated: a successful write_files writes every asset of the       *)
(* catalog exactly once: each asset has exactly one output file at its     *)
(* final logical name, no output path is written more than once, and the   *)
(* assets that are not text assets are written with the bytes of their     *)
(* source.                                                                 *)
(***************************************************************************)
C11_Claim ==
    WriteOk => OneFileEach /\ WrittenOnce /\ CopiedVerbatim

\* C11 short of the uniqueness of the output paths, which holds for the
\* catalogs that have no two assets of one logical name.
C11_OneFileEach ==
    WriteOk =>
        /\ OneFileEach
        /\ CopiedVerbatim
        /\ DistinctNames => WrittenOnce

(***************************************************************************)
(* C12 as stated: no two assets of a collected catalog share a logical     *)
(* name: StaticFiles::new does not return a catalog in which an additional *)
(* file has the logical name of a built-in asset or of another additional  *)
(* file.                                                                   *)
(***************************************************************************)
C12_Claim ==
    \A j, k \in Assets :
        j # k /\ static_files[k].kind = "Additional" =>
            collected[j] # collected[k]

(***************************************************************************)
(* What the claims about the phases of the pipeline are stated with.       *)
(***************************************************************************)
\* The k-th asset has the name it was collected under, or that name
\* fingerprinted once.
AtMostOnceFingerprinted(k) ==
    \/ static_files[k].filename = collected[k]
    \/ /\ HasDot(collected[k])
       /\ \E d \in Digests :
            static_files[k].filename = Fingerprinted(collected[k], d)

\* hash_files was never called.
NeverHashed == hash_results = <<>>

(***************************************************************************)
(* C13 as stated: a pipeline instance is hashed at most once and written   *)
(* at most once, in the order collect, hash, write: a hash_files after the *)
(* first one fails, no asset's name is ever fingerprinted a second time,   *)
(* and once write_files has run nothing of the instance changes any more.  *)
(***************************************************************************)
C13_Claim ==
    /\ \A n \in 2..Len(hash_results) : ~hash_results[n].ok
    /\ \A k \in Assets : AtMostOnceFingerprinted(k)

\* The part of C13 that the ownership of self gives: after write_files the
\* instance is neither hashed nor written again.
C13_WriteConsumes ==
    [][write_result.some => UNCHANGED assetVars]_vars

(***************************************************************************)
(* C14: when hash_files was never called, write_files renames nothing:     *)
(* every asset is written under the logical name it was collected under,   *)
(* the name map it returns is empty, and every directive of a text asset   *)
(* is replaced by one ../ for each directory of the asset's name, followed *)
(* by the name as the directive has it.                                    *)
(***************************************************************************)
C14_NoHashNoRename ==
    NeverHashed /\ write_result.some =>
        /\ \A k \in 1..Len(written) : written[k].filename = collected[k]
        /\ WriteOk =>
            /\ Len(written) = Len(collected)
            /\ write_result.val.val.hash_map = <<>>
        /\ \A k \in 1..Len(written) :
            \A c \in 1..Len(SourceBytes(k)) :
                DirectiveAt(k, c) =>
                    written[k].data[c] =
                        Bytes(UpToRoot(Depth(collected[k])) \o SourceBytes(k)[c].v)

\* Without hash_files, a text asset one directory deep that names book.js is
\* written next to a book.js that hash_files would have renamed: it holds
\* ../book.js.
C14_Witness ==
    /\ NeverHashed
    /\ WriteOk
    /\ \E j, k \in 1..Len(written) :
        /\ written[j].filename = BookJs
        /\ DirectiveAt(k, 1)
        /\ Depth(written[k].filename) = 1
        /\ written[k].data[1] = Bytes(<<"..", "/">> \o BookJs)

(***************************************************************************)
(* What the claims about the link resolver are stated with.                *)
(***************************************************************************)
\* The destinations the last call of adjust_links was to fix, each with what
\* it became: the destination of a link or an image, and the value HTML_LINK
\* captures in each tag of raw HTML.
FixedPairs ==
    IF ~adjusted.some THEN {}
    ELSE LET e == adjusted.val.event
             f == adjusted.val.fixed
         IN  IF e.kind \in {"Link", "Image"} THEN {<<e.dest, f.dest>>}
             ELSE { <<e.html[k].attrs[HTML_LINK_captures(e.html[k])].value,
                      f.html[k].attrs[HTML_LINK_captures(e.html[k])].value>> :
                      k \in {i \in 1..Len(e.html) :
                               HTML_LINK_captures(e.html[i]) # 0} }

\* A destination is its path, up to the first '#', and its fragment, from
\* that '#' on.
FirstHash(d) ==
    IF \E k \in 1..Len(d) : d[k] = "#"
    THEN CHOOSE k \in 1..Len(d) : d[k] = "#" /\ \A l \in 1..(k - 1) : d[l] # "#"
    ELSE Len(d) + 1

PathPart(d) == SubSeq(d, 1, FirstHash(d) - 1)

Fragment(d) == SubSeq(d, FirstHash(d), Len(d))

FragmentOnly(d) == d # <<>> /\ d[1] = "#"

\* RFC 3986: scheme = ALPHA *( ALPHA / DIGIT / "+" / "-" / "." ), then ":".
HasScheme(d) ==
    \E k \in 2..Len(d) :
        /\ d[k] = ":"
        /\ d[1] \in LowerWords \cup UpperWords
        /\ \A j \in 2..(k - 1) :
            d[j] \in LowerWords \cup UpperWords \cup {"+", "-", "."}

RelativeDest(d) == ~FragmentOnly(d) /\ ~HasScheme(d)

\* X.md, or X.md#A.
MdDest(d) == ends_with(PathPart(d), <<".", "md">>)

ContainsMd(d) == \E k \in 1..(Len(d) - 1) : d[k] = "." /\ d[k + 1] = "md"

\* X.html, or X.html#A.
Naive(d) ==
    SubSeq(PathPart(d), 1, Len(PathPart(d)) - 2) \o <<".", "html">> \o Fragment(d)

\* The output directory of the chapter that is printed, with its '/': empty
\* without a print path, and for a chapter at the root of the book.
OutputDirPrefix ==
    IF print_path.some /\ LastSlash(print_path.val) > 0
    THEN SubSeq(print_path.val, 1, LastSlash(print_path.val))
    ELSE <<>>

\* The path of a chapter with .html for its .md.
HtmlOf(p) ==
    IF ends_with(p, <<".", "md">>)
    THEN SubSeq(p, 1, Len(p) - 2) \o <<".", "html">>
    ELSE p

RECURSIVE WalkFrom(_, _)
\* Where the components `rel` lead from the directory `dir`, a ".." going up.
WalkFrom(dir, rel) ==
    IF rel = <<>> THEN dir
    ELSE IF Head(rel) = <<".", ".">>
    THEN WalkFrom(SubSeq(dir, 1, Len(dir) - 1), Tail(rel))
    ELSE WalkFrom(Append(dir, Head(rel)), Tail(rel))

\* With a context: the canonical paths the resolver obtains for the referring
\* document and for the target of a .md destination.
TheCtx == symlink_resolve_ctx.val

ReferrerCanon ==
    canonicalize(absolute_md_path(
        original_md_path(TheCtx.current_md_relative_path), TheCtx.src_dir))

TargetRelative(d) == original_md_path(MD_LINK_captures(d).val.link \o <<".", "md">>)

TargetCanon(d) == canonicalize(absolute_md_path(TargetRelative(d), TheCtx.src_dir))

ResolvedBoth(d) ==
    /\ ReferrerCanon.ok
    /\ TargetCanon(d).ok
    /\ ReferrerCanon.val \in DOMAIN TheCtx.to_render_paths
    /\ TargetCanon(d).val \in DOMAIN TheCtx.to_render_paths

\* The components of the referrer's destination directory and of the
\* target's destination path.
ReferrerDir ==
    LET cs == Components(TheCtx.to_render_paths[ReferrerCanon.val])
    IN  SubSeq(cs, 1, Len(cs) - 1)

TargetDest(d) == Components(TheCtx.to_render_paths[TargetCanon(d).val])

\* `link`, taken from the referrer's destination directory, leads to the
\* target's destination.
LeadsToTarget(link, d) == WalkFrom(ReferrerDir, Components(link)) = TargetDest(d)

\* A warning that names the path was logged.
Warned(p) ==
    \E l \in 1..Len(log) : log[l].level = "warn" /\ log[l].arg = p

(***************************************************************************)
(* C15 as stated: with no symlink context and no print path, a relative    *)
(* destination X.md becomes X.html and a relative destination X.md#A       *)
(* becomes X.html#A, the anchor A unchanged.                               *)
(***************************************************************************)
C15_Claim ==
    print_path = None /\ symlink_resolve_ctx = None =>
        \A pr \in FixedPairs :
            RelativeDest(pr[1]) /\ MdDest(pr[1]) => pr[2] = Naive(pr[1])

\* C15 for the destinations whose anchor does not contain .md itself.
C15_PlainAnchors ==
    print_path = None /\ symlink_resolve_ctx = None =>
        \A pr \in FixedPairs :
            RelativeDest(pr[1]) /\ MdDest(pr[1]) /\ ~ContainsMd(Fragment(pr[1]))
                => pr[2] = Naive(pr[1])

(***************************************************************************)
(* C16 as stated: a destination that starts with a URI scheme and a colon, *)
(* the scheme as RFC 3986 defines it, is left unchanged, whatever the      *)
(* print path and the symlink context, also when it contains .md.          *)
(***************************************************************************)
C16_Claim ==
    \A pr \in FixedPairs : HasScheme(pr[1]) => pr[2] = pr[1]

\* C16 for the schemes written in lower case, those SCHEME_LINK matches.
C16_LowerCaseSchemes ==
    \A pr \in FixedPairs : SCHEME_LINK_is_match(pr[1]) => pr[2] = pr[1]

(***************************************************************************)
(* C17: a fragment-only destination is left unchanged without a print      *)
(* path; with a print path it becomes the path of the chapter, .html in    *)
(* the place of its .md, followed by the fragment unchanged: no directory  *)
(* is put in front of it and a .md inside the fragment is kept.            *)
(***************************************************************************)
C17_FragmentOnly ==
    \A pr \in FixedPairs :
        FragmentOnly(pr[1]) =>
            pr[2] = IF print_path.some THEN HtmlOf(print_path.val) \o pr[1]
                    ELSE pr[1]

\* The link #b.md of the chapter ch/one.md, on the print page: ch/one.html#b.md.
C17_Witness ==
    /\ print_path = Some(<<"ch", "/", "one", ".", "md">>)
    /\ adjusted.some
    /\ adjusted.val.event = LinkEvent(<<"#", "b", ".", "md">>)
    /\ adjusted.val.fixed.dest =
        <<"ch", "/", "one", ".", "html", "#", "b", ".", "md">>

(***************************************************************************)
(* C18 as stated: a relative destination that does not end in .md or in    *)
(* .md#anchor becomes the output directory of the referring chapter (empty *)
(* without a print path) followed by the destination as written: it is not *)
(* shortened and gets no .html, also when .md occurs elsewhere in it.      *)
(***************************************************************************)
C18_Claim ==
    \A pr \in FixedPairs :
        RelativeDest(pr[1]) /\ ~MdDest(pr[1]) /\ ~ends_with(pr[1], <<".", "md">>)
            => pr[2] = OutputDirPrefix \o pr[1]

\* C18 for the destinations in which .md does not occur at all.
C18_NoMdInside ==
    \A pr \in FixedPairs :
        RelativeDest(pr[1]) /\ ~ContainsMd(pr[1])
            => pr[2] = OutputDirPrefix \o pr[1]

C20_Claim ==
    symlink_resolve_ctx.some =>
        \A pr \in FixedPairs :
            RelativeDest(pr[1]) /\ MdDest(pr[1]) /\ ~ResolvedBoth(pr[1]) =>
                /\ pr[2] = OutputDirPrefix \o Naive(pr[1])
                /\ Warned(TargetRelative(pr[1]))

\* What holds of the warning: the call logs one exactly when both paths are
\* canonicalized and the target is not a key of the map, and the destination
\* is rewritten naively whenever its anchor does not contain .md.
C20_WarnsForUntranslatedTarget ==
    symlink_resolve_ctx.some /\ adjusted.some
    /\ adjusted.val.event.kind \in {"Link", "Image"} =>
        LET d == adjusted.val.event.dest
        IN  RelativeDest(d) /\ MdDest(d) /\ ~ResolvedBoth(d) =>
                /\ ~ContainsMd(Fragment(d)) =>
                    adjusted.val.fixed.dest = OutputDirPrefix \o Naive(d)
                /\ adjusted.val.logged <=>
                    /\ ReferrerCanon.ok
                    /\ TargetCanon(d).ok
                    /\ TargetCanon(d).val \notin DOMAIN TheCtx.to_render_paths
                /\ adjusted.val.logged => Warned(TargetRelative(d))

(***************************************************************************)
(* C24: inside a raw HTML event the value of every href and every src of   *)
(* an <a> or an <img> is rewritten by the rule of fix, with the print path *)
(* and the symlink context of the call, and the rest of the fragment, the  *)
(* other attributes and the other tags, is unchanged.                      *)
(***************************************************************************)
C24_Claim ==
    adjusted.some /\ adjusted.val.event.kind = "Html" =>
        LET e == adjusted.val.event.html
            f == adjusted.val.fixed.html
            Rewritten(t, a) ==
                IF t.tag \in {"a", "img"} /\ a.name \in {<<"href">>, <<"src">>}
                THEN fix(a.value, print_path, symlink_resolve_ctx, <<>>).dest
                ELSE a.value
        IN  /\ Len(f) = Len(e)
            /\ \A k \in 1..Len(e) :
                /\ f[k].tag = e[k].tag
                /\ Len(f[k].attrs) = Len(e[k].attrs)
                /\ \A j \in 1..Len(e[k].attrs) :
                    f[k].attrs[j] =
                        [e[k].attrs[j] EXCEPT !.value = Rewritten(e[k], e[k].attrs[j])]

(***************************************************************************)
(* C26: when writing or copying the k-th asset fails, write_files stops at *)
(* once and returns the error and no name map; the assets before the k-th  *)
(* stay written, none after it is written, and a run in which an asset     *)
(* fails is never reported as a success.                                   *)
(***************************************************************************)
\* The k-th asset cannot be written: its input file cannot be opened.
FailsToWrite(k) ==
    /\ static_files[k].kind = "Additional"
    /\ ~open_input(static_files[k].input_location).ok

FirstFailure ==
    IF \E k \in Assets : FailsToWrite(k)
    THEN CHOOSE k \in Assets :
            FailsToWrite(k) /\ \A j \in 1..(k - 1) : ~FailsToWrite(j)
    ELSE 0

EntriesNameWrittenFiles ==
    /\ write_result.val.val.hash_map = hash_map
    /\ \A original \in DOMAIN hash_map :
        \E k \in 1..Len(written) :
            /\ collected[k] = original
            /\ written[k].filename = hash_map[original]

C30_Claim == WriteOk => EntriesNameWrittenFiles

\* The same after at most one hash_files.
C30_HashedAtMostOnce ==
    WriteOk /\ Len(hash_results) <= 1 => EntriesNameWrittenFiles

(***************************************************************************)
(* C29: a fingerprinted file name identifies the bytes served under it:    *)
(* when two builds write an asset under the same fingerprinted name, the   *)
(* bytes they write to it are the same, also for a text asset whose        *)
(* directives are rewritten when it is written.  The second build is any   *)
(* catalog of built-in assets, hashed once and written; no two assets of   *)
(* a build have the same name, and the digests differ where the bytes do.  *)
(***************************************************************************)
\* A build: StaticFiles::new, hash_files, write_files.
Build(catalog) ==
    LET Written(h) == write_files(h.static_files, h.hash_map, <<>>, <<>>)
    IN  Written(hash_files(catalog, <<>>))

BuiltinCatalogs ==
    { c \in Catalogs :
        /\ \A k \in 1..Len(c) : c[k].kind = "Builtin"
        /\ \A j, k \in 1..Len(c) : c[j].filename = c[k].filename => j = k }

NoCollision == \A c, d \in Contents : sha[c] = sha[d] => c = d

\* What this build wrote under the name of its k-th file, every other build
\* wrote under that name.
SameBytesInEveryBuild(k) ==
    \A catalog \in BuiltinCatalogs :
        \A w \in {Build(catalog).written} :
            \A j \in 1..Len(w) :
                w[j].filename = written[k].filename => w[j].data = written[k].data

C29_Claim ==
    HashedOnce /\ WriteOk /\ NoCollision /\ DistinctNames =>
        \A k \in 1..Len(written) : Renamed(k) => SameBytesInEveryBuild(k)

\* The same for the assets that are written as they are read.
C29_UnrewrittenAssets ==
    HashedOnce /\ WriteOk /\ NoCollision /\ DistinctNames =>
        \A k \in 1..Len(written) :
            Renamed(k) /\ ~is_text(written[k].filename) => SameBytesInEveryBuild(k)

(***************************************************************************)
(* C21: with curly quotes enabled the converter rewrites straight quotes   *)
(* in the text events outside code blocks and nowhere else: a text between *)
(* the start of a code block and its end is unchanged, a code span is      *)
(* unchanged, and the texts after the end of the block are converted       *)
(* again; with curly quotes disabled every event is unchanged.             *)
(***************************************************************************)
\* The k-th event of the document lies between the start of a code block
\* and its end.
InCodeBlock(k) ==
    \E j \in 1..(k - 1) :
        /\ parsed[j] = StartCodeBlock
        /\ \A i \in (j + 1)..(k - 1) : parsed[i] # EndCodeBlock

\* u is t with a curly quote for every straight one.
Curled(t, u) ==
    /\ Len(u) = Len(t)
    /\ \A i \in 1..Len(t) :
        IF t[i] = "'" THEN u[i] \in {"lsquo", "rsquo"}
        ELSE IF t[i] = "\"" THEN u[i] \in {"ldquo", "rdquo"}
        ELSE u[i] = t[i]

C21_OutsideCodeOnly ==
    \A k \in 1..Len(converted) :
        IF converter.enabled /\ parsed[k].kind = "Text" /\ ~InCodeBlock(k)
        THEN converted[k].kind = "Text" /\ Curled(parsed[k].text, converted[k].text)
        ELSE converted[k] = parsed[k]

\* A quoted text inside a code block, kept, and the same text after the
\* block, converted.
C21_Witness ==
    /\ converter.enabled
    /\ Len(converted) = 4
    /\ parsed[1] = StartCodeBlock
    /\ parsed[2] = Text(<<"'", "a", "'">>)
    /\ parsed[3] = EndCodeBlock
    /\ converted[2] = parsed[2]
    /\ converted[4] = Text(<<"lsquo", "a", "rsquo">>)

(***************************************************************************)
(* What the claims about the HTML renderer are stated with.                *)
(***************************************************************************)
RECURSIVE ChaptersOf(_)
\* The chapters of a toc in pre-order: a chapter, then those of its
\* sub_items; a spacer gives none.
ChaptersOf(items) ==
    IF items = <<>> THEN <<>>
    ELSE (IF Head(items).kind = "Spacer" THEN <<>>
          ELSE <<Head(items).chapter>> \o ChaptersOf(Head(items).sub_items))
         \o ChaptersOf(Tail(items))

HasDestPath(c) == c.dest_path.some

\* The chapters that are not drafts, in pre-order.
RenderedChapters == SelectSeq(ChaptersOf(toc), HasDestPath)

RECURSIVE ContentsOf(_)
\* The contents of a sequence of chapters, one after the other.
ContentsOf(chapters) ==
    IF chapters = <<>> THEN <<>>
    ELSE (IF Head(chapters).content.some THEN Head(chapters).content.val ELSE <<>>)
         \o ContentsOf(Tail(chapters))

RenderOk == render_result.some /\ render_result.val.ok

IsPrintFile(f) == f.path = get_dest \o PrintHtml

C23_PrintPage ==
    /\ \A k \in 1..Len(rendered_files) :
        IsPrintFile(rendered_files[k]) =>
            /\ k = Len(RenderedChapters) + 1
            /\ ContentsOf(ChaptersOf(toc)) # <<>>
            /\ rendered_files[k].page.content =
                    Some(render_markdown(ContentsOf(ChaptersOf(toc))))
    /\ RenderOk /\ ContentsOf(ChaptersOf(toc)) # <<>> =>
            /\ Len(rendered_files) = Len(RenderedChapters) + 1
            /\ IsPrintFile(rendered_files[Len(rendered_files)])

\* Chapter B with the sub-chapter A, and then a chapter without content:
\* print.html is written last, the fourth file, and holds B followed by A.
C23_Witness ==
    /\ RenderOk
    /\ Len(toc) = 2
    /\ Len(rendered_files) = 4
    /\ IsPrintFile(rendered_files[4])
    /\ rendered_files[4].page.content = Some(render_markdown(<<"B", "A">>))

(***************************************************************************)
(* What the claims about MDBook::init are stated with.                     *)
(***************************************************************************)
InitOk == init_result.some /\ init_result.val.ok

SummaryMd == SrcDir \o <<"SUMMARY.md">>

\* The chapters and affixes with a path that the iterator yields after init.
ItemsWithPath ==
    { item \in { MDBook_iter(tree[SummaryMd].content)[k] :
                   k \in 1..Len(MDBook_iter(tree[SummaryMd].content)) } :
        item.kind # "Spacer" /\ item.path # <<>> }

\* What existed before init is as it was, and what init made is a
\* directory, the default SUMMARY.md, or the stub of an item at its path.
ExistingKeptMissingCreated ==
    \A p \in DOMAIN tree :
        IF tree_before[p].state # "missing" THEN tree[p] = tree_before[p]
        ELSE \/ tree[p] \in {MissingFile, Directory}
             \/ p = SummaryMd /\ tree[p] = TextFile(DefaultSummary)
             \/ \E item \in ItemsWithPath :
                    /\ p = SrcDir \o item.path
                    /\ tree[p] = TextFile(<<"# ", item.name>>)

(***************************************************************************)
(* C25: after a successful init every chapter and every affix that the     *)
(* iterator yields and that has a path has a file at that path under the   *)
(* source directory; a chapter file or a SUMMARY.md that existed before    *)
(* keeps its content, and only missing files are created, each stub with   *)
(* a heading of the chapter's name.                                        *)
(***************************************************************************)
C25_Claim ==
    InitOk =>
        /\ \A item \in ItemsWithPath : tree[SrcDir \o item.path].state = "text"
        /\ ExistingKeptMissingCreated

\* The same with "something exists at that path" for "a file".
C25_PathsExist ==
    InitOk =>
        /\ \A item \in ItemsWithPath : exists(tree, SrcDir \o item.path)
        /\ ExistingKeptMissingCreated

(***************************************************************************)
(* What the claim about the watch loop is stated with.                     *)
(***************************************************************************)
\* An event the loop rebuilds for: a Create, Write, Remove or Rename of a
\* path that the gitignore does not match.
TriggersRebuild(event) ==
    /\ event.kind \in {"Create", "Write", "Remove", "Rename"}
    /\ event.path \notin gitignore

\* The paths of the events of a batch that trigger a rebuild, in the order
\* in which the events arrived.
TriggeringPaths(batch) ==
    LET triggering == SelectSeq(batch, TriggersRebuild)
    IN  [k \in 1..Len(triggering) |-> triggering[k].path]

RECURSIVE Concatenated(_)
Concatenated(seqs) ==
    IF seqs = <<>> THEN <<>> ELSE Head(seqs) \o Concatenated(Tail(seqs))

\* The events that are sent and not yet in a batch.
Pending == (IF first_event.some THEN <<first_event.val>> ELSE <<>>) \o rx

\* One call of the closure for each batch that has a triggering event, none
\* for the others, with the triggering paths of the batch; every event that
\* was received is in one batch, in the order of arrival; and a failed
\* rebuild is in the log.
BatchesRebuilt ==
    /\ \A b \in 1..Len(batches) :
        LET calls == {i \in 1..Len(rebuilds) : rebuilds[i].batch = b}
        IN  IF TriggeringPaths(batches[b]) = <<>> THEN calls = {}
            ELSE /\ Cardinality(calls) = 1
                 /\ \A i \in calls : rebuilds[i].paths = TriggeringPaths(batches[b])
    /\ \A i \in 1..Len(rebuilds) : rebuilds[i].batch \in 1..Len(batches)
    /\ Concatenated(batches) \o Pending = sent
    /\ \A i \in 1..Len(rebuilds) :
        ~rebuilds[i].built =>
            \E k \in 1..Len(log) :
                log[k] = LogRecord("error", "Unable to build the book", rebuilds[i].paths)

(***************************************************************************)
(* C27: in the watch loop the closure is called once for each batch of     *)
(* received events that holds a Create, Write, Remove or Rename of a path  *)
(* the gitignore does not match, and for no other batch; it is given the   *)
(* paths of those events in the order of arrival; every received event is  *)
(* in exactly one batch; a rebuild that fails is logged, and the loop goes *)
(* on: a change that arrives after it still leads to a rebuild.            *)
(***************************************************************************)
C27_RebuildPerBatch ==
    /\ []BatchesRebuilt
    /\ \A n \in 1..MaxSent :
        (/\ Len(rebuilds) = n
         /\ ~rebuilds[n].built
         /\ TriggeringPaths(Pending) # <<>>) ~> (Len(rebuilds) > n)

\* A rebuild failed, and a later batch was rebuilt.
C27_Witness ==
    /\ Len(rebuilds) = 2
    /\ ~rebuilds[1].built
    /\ rebuilds[2].batch > rebuilds[1].batch

(***************************************************************************)
(* What the claim about the navigation helpers is stated with.             *)
(***************************************************************************)
\* The entries of the chapter list that have a path that is not empty.
WithPath == {k \in 1..Len(nav_chapters) :
               nav_chapters[k].path.some /\ nav_chapters[k].path.val # <<>>}

DistinctPaths ==
    \A j, k \in WithPath : nav_chapters[j].path = nav_chapters[k].path => j = k

\* The entries of the current chapter: one at most when the paths differ.
CurrentEntries == {k \in WithPath : nav_chapters[k].path.val = current_path}

Earlier(k) == {j \in WithPath : j < k}

Later(k) == {j \in WithPath : j > k}

\* What a helper renders for the k-th entry: its name and its path with
\* the extension html.
RenderedEntry(k) ==
    Ok(Some([title |-> nav_chapters[k].name.val,
             link |-> with_extension_html(nav_chapters[k].path.val)]))

Nearest(ks, k) == CHOOSE j \in ks : \A i \in ks : (i - k) * (i - k) >= (j - k) * (j - k)

ExpectedPrevious ==
    IF \E k \in CurrentEntries : Earlier(k) # {}
    THEN LET k == CHOOSE c \in CurrentEntries : TRUE
         IN  RenderedEntry(Nearest(Earlier(k), k))
    ELSE Ok(None)

ExpectedNext ==
    IF \E k \in CurrentEntries : Later(k) # {}
    THEN LET k == CHOOSE c \in CurrentEntries : TRUE
         IN  RenderedEntry(Nearest(Later(k), k))
    ELSE Ok(None)

\* For the chapter before the current one, `next` renders the current one.
NextOfPrevious ==
    \A k \in CurrentEntries :
        previous_out.some /\ Earlier(k) # {} =>
            next(nav_chapters,
                 navigate_path(nav_chapters[Nearest(Earlier(k), k)].path.val),
                 None) = RenderedEntry(k)

NavigationAsExpected ==
    /\ previous_out.some => previous_out.val = ExpectedPrevious
    /\ next_out.some => next_out.val = ExpectedNext
    /\ NextOfPrevious

(***************************************************************************)
(* C28: over a chapter list in which the paths that are not empty differ   *)
(* from each other, `previous` renders the nearest earlier entry with a    *)
(* path, and nothing when the current chapter is the first such entry or   *)
(* is not in the list; `next` renders the nearest later one, and nothing   *)
(* when the current chapter is the last; entries without a path are        *)
(* skipped, so next of previous of a chapter is that chapter.              *)
(***************************************************************************)
C28_Claim == DistinctPaths => NavigationAsExpected

\* The same for a chapter list whose paths have neither a double quote nor
\* a backslash.
C28_PlainPaths ==
    /\ DistinctPaths
    /\ \A k \in WithPath :
        \A i \in 1..Len(nav_chapters[k].path.val) :
            nav_chapters[k].path.val[i] \notin {"\"", "\\"}
    => NavigationAsExpected

====
